---------------------------- MODULE Spec2Model ----------------------------
(***************************************************************************)
(* Model of the research assistant: the workflow orchestrator              *)
(* (src/workflows/research_workflow.py), the web service that runs it on   *)
(* worker threads (src/web_app.py), the command-line front end             *)
(* (src/main.py) and the input validator (WorkflowUtils).                  *)
(*                                                                         *)
(* Text is modelled as a sequence of one-character strings, so that        *)
(* strip(), lower(), len() and substring search are computed, not assumed. *)
(* Time is a counter of clock ticks; datetime.now() reads it.              *)
(***************************************************************************)
EXTENDS Integers, Sequences, FiniteSets, TLC

\* ------------------------------------------------------------------ bounds
\* Leading/trailing whitespace put around a query by the validator inputs.
MaxPad == 1
\* Longest run of non-blank characters in a validator input.
MaxCore == 11
\* Requests (chat, research) a behaviour of the web service admits.
MaxReq == 2
\* Last tick of the clock.
MaxTime == 1
\* Commands a behaviour of the command-line front end reads.
MaxCmd == 3
\* Citations a behaviour adds to one store.
MaxAdds == 2
\* Uses a behaviour tracks, over all citations.
MaxUses == 2
\* Authors of the longest author list that is formatted.
MaxAuthors == 3
\* Assess calls a behaviour makes on one assessor.
MaxAssess == 3

\* --------------------------------------------------------------- constants
\* research_workflow.py:407  len(research_query.strip()) < 10
MinQueryLen == 10
\* web_app.py:79  len(message.split()) > 4
MinQuestionWords == 4

\* -------------------------------------------------------------------- text
Whitespace == {" ", "\t", "\n"}

RECURSIVE LStrip(_)
LStrip(s) ==
  IF s = <<>> THEN <<>>
  ELSE IF Head(s) \in Whitespace THEN LStrip(Tail(s)) ELSE s

RECURSIVE RStrip(_)
RStrip(s) ==
  IF s = <<>> THEN <<>>
  ELSE IF s[Len(s)] \in Whitespace THEN RStrip(SubSeq(s, 1, Len(s) - 1)) ELSE s

\* str.strip(): leading and trailing whitespace removed, inner kept.
Strip(s) == RStrip(LStrip(s))

LowerChar(c) ==
  CASE c = "A" -> "a" [] c = "B" -> "b" [] c = "C" -> "c" [] c = "D" -> "d"
    [] c = "E" -> "e" [] c = "F" -> "f" [] c = "G" -> "g" [] c = "H" -> "h"
    [] c = "I" -> "i" [] c = "J" -> "j" [] c = "K" -> "k" [] c = "L" -> "l"
    [] c = "M" -> "m" [] c = "N" -> "n" [] c = "O" -> "o" [] c = "P" -> "p"
    [] c = "Q" -> "q" [] c = "R" -> "r" [] c = "S" -> "s" [] c = "T" -> "t"
    [] c = "U" -> "u" [] c = "V" -> "v" [] c = "W" -> "w" [] c = "X" -> "x"
    [] c = "Y" -> "y" [] c = "Z" -> "z" [] OTHER -> c

\* str.lower()
Lower(s) == [i \in 1..Len(s) |-> LowerChar(s[i])]

\* `kw in s` for strings: kw occurs as a contiguous substring of s.
Contains(s, kw) ==
  \E i \in 1..(Len(s) - Len(kw) + 1) : SubSeq(s, i, i + Len(kw) - 1) = kw

\* len(s.split()): the number of maximal runs of non-whitespace characters.
WordCount(s) ==
  Cardinality({i \in 1..Len(s) :
                 /\ s[i] \notin Whitespace
                 /\ (i = 1 \/ s[i - 1] \in Whitespace)})

\* `x in list`
InList(x, l) == \E i \in 1..Len(l) : l[i] = x

\* ------------------------------------------------------------ enumerations
list_available_formats ==
  << "comprehensive_report", "executive_briefing", "presentation",
     "technical_summary", "policy_brief" >>

list_target_audiences ==
  << "academic", "professional", "executive", "technical", "general" >>

list_depth_levels ==
  << "overview", "detailed", "comprehensive", "expert" >>

\* --------------------------------------------------------------- validator
\* The messages of validate_inputs (lines 408, 411, 414, 417).
ValidationErrors ==
  [query |-> "Research query must be at least 10 characters long",
   format |-> "Invalid output format. Available: [...]",
   audience |-> "Invalid target audience. Available: [...]",
   depth |-> "Invalid depth level. Available: [...]"]

\* Off by one: a query of exactly ten characters is refused.
Mut_QueryTooShort_OffByOne(research_query) ==
  research_query = <<>> \/ Len(Strip(research_query)) <= MinQueryLen

\* `not research_query or len(research_query.strip()) < 10`
QueryTooShort(research_query) ==
  research_query = <<>> \/ Len(Strip(research_query)) < MinQueryLen

\* The checks chained with elif: the first violation hides the others.
Mut_validate_inputs_ShortCircuit(research_query, output_format, target_audience, depth_level) ==
  LET errors ==
        IF QueryTooShort(research_query) THEN << ValidationErrors.query >>
        ELSE IF ~InList(output_format, list_available_formats) THEN << ValidationErrors.format >>
        ELSE IF ~InList(target_audience, list_target_audiences) THEN << ValidationErrors.audience >>
        ELSE IF ~InList(depth_level, list_depth_levels) THEN << ValidationErrors.depth >>
        ELSE << >>
  IN [valid |-> Len(errors) = 0, errors |-> errors]

validate_inputs(research_query, output_format, target_audience, depth_level) ==
  LET e1 == IF QueryTooShort(research_query) THEN << ValidationErrors.query >> ELSE << >>
      e2 == IF ~InList(output_format, list_available_formats)
            THEN << ValidationErrors.format >> ELSE << >>
      e3 == IF ~InList(target_audience, list_target_audiences)
            THEN << ValidationErrors.audience >> ELSE << >>
      e4 == IF ~InList(depth_level, list_depth_levels)
            THEN << ValidationErrors.depth >> ELSE << >>
      errors == e1 \o e2 \o e3 \o e4
  IN [valid |-> Len(errors) = 0, errors |-> errors]

\* ------------------------------------------------------------------ state
VARIABLES
  now,               \* the clock read by datetime.now()
  workflow_state,    \* ResearchWorkflow.workflow_state of the one instance
  current_research,  \* web_app.current_research
  pc,                \* where each thread is
  req,               \* the request a thread serves
  loc,               \* locals of the execute_research_project call of a thread
  nreq,              \* requests (web) or commands (command line) read so far
  u_args,            \* arguments of the last validator call
  u_result,          \* its result
  citations,         \* CitationManager._citations, in insertion order
  citation_usage,    \* CitationManager._citation_usage
  added_ids,         \* the ids the add calls answered with, in order
  n_used,            \* per id, usage calls that answered with success
  assessment_history, \* QualityAssessor._assessment_history, in insertion order
  assess_log,        \* the assessments made, in the order of the calls
  snapshot           \* the record a caller got from get_workflow_status

vars == << now, workflow_state, current_research, pc, req,
           loc, nreq, u_args, u_result, citations, citation_usage,
           added_ids, n_used, assessment_history, assess_log, snapshot >>

web_vars == << current_research >>
\* The state of the two tools, the records kept of their answers, and what
\* a caller holds.
tool_vars == << citations, citation_usage, added_ids, n_used,
               assessment_history, assess_log, snapshot >>
util_vars == << u_args, u_result, tool_vars >>

\* The main thread of the command-line front end, and the threads of the web
\* service (each serves a request and then runs the worker it started).
MainThread == "main"
WebThreads == {"t1", "t2"}
Threads == {MainThread} \cup WebThreads

\* A key that is not in a dict / a value that is None.
Absent == -1
None == "None"
\* _calculate_duration returns a text: "unknown", or str() of a timedelta,
\* kept here as the number of ticks it stands for.
Unknown == [kind |-> "unknown"]
Timedelta(n) == [kind |-> "timedelta", ticks |-> n]

\* The three tasks in the order _create_research_tasks returns them.
create_research_tasks == << "research", "analysis", "content" >>

\* The raw text the agent runtime hands back for a task: one text per task,
\* all different.
RawOutput(task) ==
  CASE task = "research" -> "research findings"
    [] task = "analysis" -> "analysis report"
    [] task = "content" -> "final document"

\* None where a record is expected.
NoRecord == [status |-> "none"]

NoReq == [entry |-> "none", query |-> <<>>, output_format |-> "",
          target_audience |-> "", depth_level |-> ""]

NoLoc == [n_done |-> 0, executing |-> "", log |-> <<>>,
          outs |-> <<>>, metadata |-> NoRecord, final_results |-> NoRecord,
          wrote |-> 0, raised |-> "", ret |-> NoRecord]

\* ResearchWorkflow.__init__
InitWorkflowState ==
  [status |-> "initialized", current_task |-> None, completed_tasks |-> <<>>,
   start_time |-> Absent, end_time |-> Absent,
   results |-> NoRecord, errors |-> <<>>]

\* A dict with no key.
EmptyDict == [k \in {} |-> 0]

\* CitationManager.__init__ (citation_manager.py:41-44)
InitTools ==
  /\ citations = << >>
  /\ citation_usage = EmptyDict
  /\ added_ids = << >>
  /\ n_used = EmptyDict
  /\ assessment_history = << >>
  /\ assess_log = << >>
  /\ snapshot = NoRecord

InitProgram ==
  /\ InitTools
  /\ now = 0
  /\ workflow_state = InitWorkflowState
  /\ current_research = [status |-> "idle", results |-> NoRecord]
  /\ pc = [t \in Threads |-> "idle"]
  /\ req = [t \in Threads |-> NoReq]
  /\ loc = [t \in Threads |-> NoLoc]
  /\ nreq = 0

\* No utility call has been made.
NoCall == << "none" >>

InitUtils ==
  /\ u_args = NoCall
  /\ u_result = NoRecord

\* ------------------------------------------------------- request inputs
research_keywords ==
  << <<"r","e","s","e","a","r","c","h">>,
     <<"a","n","a","l","y","z","e">>,
     <<"s","t","u","d","y">>,
     <<"i","n","v","e","s","t","i","g","a","t","e">>,
     <<"e","x","p","l","o","r","e">>,
     <<"e","x","a","m","i","n","e">>,
     <<"r","e","p","o","r","t"," ","o","n">>,
     <<"t","e","l","l"," ","m","e"," ","a","b","o","u","t">>,
     <<"w","h","a","t"," ","a","r","e"," ","t","h","e"," ","t","r","e","n","d","s">>,
     <<"c","o","m","p","r","e","h","e","n","s","i","v","e"," ","a","n","a","l","y","s","i","s">>,
     <<"d","e","e","p"," ","d","i","v","e">>,
     <<"b","r","e","a","k","d","o","w","n">>,
     <<"o","v","e","r","v","i","e","w"," ","o","f">>,
     <<"i","n","s","i","g","h","t","s"," ","o","n">> >>

question_patterns ==
  << <<"w","h","a","t"," ","i","s">>,
     <<"w","h","a","t"," ","a","r","e">>,
     <<"h","o","w"," ","d","o","e","s">>,
     <<"h","o","w"," ","d","o">>,
     <<"w","h","y"," ","i","s">>,
     <<"w","h","y"," ","a","r","e">>,
     <<"w","h","e","n"," ","w","i","l","l">>,
     <<"w","h","e","r","e"," ","i","s">>,
     <<"w","h","i","c","h"," ","a","r","e">>,
     <<"w","h","o"," ","a","r","e">> >>

is_research_request(message) ==
  LET message_lower == Lower(message)
  IN \/ \E i \in 1..Len(research_keywords) :
          Contains(message_lower, research_keywords[i])
     \/ /\ \E i \in 1..Len(question_patterns) :
             Contains(message_lower, question_patterns[i])
        /\ WordCount(message) > MinQuestionWords

\* Texts a user sends: "Study AI" (a research request of eight characters),
\* " what is an ai model ok " (a question of six words, twenty-two
\* characters once stripped), "what is ai" (a question of three words) and a
\* blank message.
RawMessages ==
  { <<"S","t","u","d","y"," ","A","I">>,
    <<" ","w","h","a","t"," ","i","s"," ","a","n"," ","a","i"," ","m","o","d","e","l"," ","o","k"," ">>,
    <<"w","h","a","t"," ","i","s"," ","a","i">>,
    <<" "," ">> }

\* The format, audience and depth a request carries; a key that is missing
\* takes the default of data.get (web_app.py:96-98, 214-216).
RequestParams ==
  { [output_format |-> "executive_briefing", target_audience |-> "professional",
     depth_level |-> "detailed"],
    [output_format |-> "slides", target_audience |-> "everyone",
     depth_level |-> "detailed"] }

MkReq(entry, query, p) ==
  [entry |-> entry, query |-> query, output_format |-> p.output_format,
   target_audience |-> p.target_audience, depth_level |-> p.depth_level]

\* ------------------------------------------------------------ orchestrator
\* Where a thread is while it is inside execute_research_project.
InExecute == {"x_tasks", "x_kickoff", "x_process", "x_persist", "x_complete"}

\* The caller's next statement once execute_research_project has returned.
AfterReturn(t) == IF t = MainThread THEN "cli_display" ELSE "w_store_results"

\* The values datetime.now() can return: the clock has not moved since it
\* was last read, or it has moved on by a tick.
ClockReadings == {c \in {now, now + 1} : c <= MaxTime}

\* _calculate_duration: str(end - start) when both keys are in the state.
calculate_duration ==
  IF workflow_state.start_time # Absent /\ workflow_state.end_time # Absent
  THEN Timedelta(workflow_state.end_time - workflow_state.start_time)
  ELSE Unknown

\* The handler forgets to record the failure in the state.
Mut_ExceptHandler_NoStatus(t, e) ==
  /\ workflow_state' = [workflow_state EXCEPT !.errors = Append(@, e)]
  /\ loc' = [loc EXCEPT ![t].ret = [status |-> "failed", error |-> e],
                        ![t].raised = e,
                        ![t].executing = ""]
  /\ pc' = [pc EXCEPT ![t] = AfterReturn(t)]

\* except Exception as e (lines 87-91): the state becomes 'error', the text
\* of the exception is appended to errors, the failed record is returned.
ExceptHandler(t, e) ==
  /\ workflow_state' = [workflow_state EXCEPT !.status = "error",
                                              !.errors = Append(@, e)]
  /\ loc' = [loc EXCEPT ![t].ret = [status |-> "failed", error |-> e],
                        ![t].raised = e,
                        ![t].executing = ""]
  /\ pc' = [pc EXCEPT ![t] = AfterReturn(t)]

\* Lines 57-58: the call marks the state running and stamps start_time.
Enter(t) ==
  /\ pc[t] = "x_enter"
  /\ now' \in ClockReadings
  /\ workflow_state' = [workflow_state EXCEPT !.status = "running",
                                              !.start_time = now']
  /\ pc' = [pc EXCEPT ![t] = "x_tasks"]
  /\ UNCHANGED << loc, current_research, req, nreq, util_vars >>

\* Line 61: the three Task objects are built.
BuildTasks(t) ==
  /\ pc[t] = "x_tasks"
  /\ pc' = [pc EXCEPT ![t] = "x_kickoff"]
  /\ UNCHANGED << now, workflow_state, current_research, req, loc, nreq, util_vars >>

\* Line 61 raises.
BuildTasksRaises(t) ==
  /\ pc[t] = "x_tasks"
  /\ ExceptHandler(t, "task_error")
  /\ UNCHANGED << now, current_research, req, nreq, util_vars >>

\* crew.kickoff() with Process.sequential (lines 64-75): the runtime starts
\* the next task of the list when none is executing.
PhaseStart(t) ==
  /\ pc[t] = "x_kickoff"
  /\ loc[t].executing = ""
  /\ loc[t].n_done < Len(create_research_tasks)
  /\ LET task == create_research_tasks[loc[t].n_done + 1]
     IN loc' = [loc EXCEPT ![t].executing = task,
                           ![t].log = Append(@, << "start", task >>)]
  /\ UNCHANGED << now, workflow_state, current_research, pc, req, nreq, util_vars >>

\* The finished task is recorded in the state.
Mut_PhaseEnd_RecordsTask(t) ==
  /\ pc[t] = "x_kickoff"
  /\ loc[t].executing # ""
  /\ loc' = [loc EXCEPT ![t].executing = "",
                        ![t].n_done = @ + 1,
                        ![t].outs = Append(@, RawOutput(loc[t].executing)),
                        ![t].log = Append(@, << "end", loc[t].executing >>)]
  /\ workflow_state' =
       [workflow_state EXCEPT !.completed_tasks = Append(@, loc[t].executing)]
  /\ UNCHANGED << now, current_research, pc, req, nreq, util_vars >>

\* The executing task finishes with its raw text.
PhaseEnd(t) ==
  /\ pc[t] = "x_kickoff"
  /\ loc[t].executing # ""
  /\ loc' = [loc EXCEPT ![t].executing = "",
                        ![t].n_done = @ + 1,
                        ![t].outs = Append(@, RawOutput(loc[t].executing)),
                        ![t].log = Append(@, << "end", loc[t].executing >>)]
  /\ UNCHANGED << now, workflow_state, current_research, pc, req, nreq, util_vars >>

\* The executing task raises out of crew.kickoff() (line 75).
PhaseRaises(t) ==
  /\ pc[t] = "x_kickoff"
  /\ loc[t].executing # ""
  /\ ExceptHandler(t, "phase_error")
  /\ UNCHANGED << now, current_research, req, nreq, util_vars >>

\* crew.kickoff() returns after the last task (line 75).
KickoffReturns(t) ==
  /\ pc[t] = "x_kickoff"
  /\ loc[t].executing = ""
  /\ loc[t].n_done = Len(create_research_tasks)
  /\ pc' = [pc EXCEPT ![t] = "x_process"]
  /\ UNCHANGED << now, workflow_state, current_research, req, loc, nreq, util_vars >>

\* _process_workflow_results, lines 295-308: the timestamp and the metadata,
\* with the duration read from the state as it is now. The fields that only
\* repeat the arguments or are fixed lists (project_id, research_query,
\* output_format, agents_used, tools_used) are left out.
BuildMetadata(t) ==
  /\ pc[t] = "x_process"
  /\ now' \in ClockReadings
  /\ loc' = [loc EXCEPT ![t].metadata =
               [status |-> "set",
                timestamp |-> now',
                workflow_duration |-> calculate_duration]]
  /\ pc' = [pc EXCEPT ![t] = "x_persist"]
  /\ UNCHANGED << workflow_state, current_research, req, nreq, util_vars >>

\* Lines 295-308 raise (outside the inner try).
BuildMetadataRaises(t) ==
  /\ pc[t] = "x_process"
  /\ ExceptHandler(t, "process_error")
  /\ UNCHANGED << now, current_research, req, nreq, util_vars >>

\* crew_result.raw: the raw text of the last task.
CrewRaw(t) == loc[t].outs[Len(loc[t].outs)]

\* The final output is taken from the first task instead of the last.
Mut_FinalOutput_First(t) == loc[t].outs[1]

\* Lines 312-315
FinalOutput(t) == CrewRaw(t)

\* Lines 311-338: the summary file workflow_summary_<timestamp>.json is
\* written and the success record built.
Persist(t) ==
  /\ pc[t] = "x_persist"
  /\ loc' = [loc EXCEPT ![t].wrote = @ + 1,
                        ![t].final_results =
                          [status |-> "success",
                           metadata |-> loc[t].metadata,
                           final_output |-> FinalOutput(t),
                           summary_file |-> loc[t].metadata.timestamp,
                           output_directory |-> "./outputs"]]
  /\ pc' = [pc EXCEPT ![t] = "x_complete"]
  /\ UNCHANGED << now, workflow_state, current_research, req,
                  nreq, util_vars >>

\* Lines 311-345: an exception inside the inner try (the slice of a raw
\* value that is no text, open() or json.dump failing) is caught by the inner
\* handler, which returns a record of status 'error'. open() may already
\* have created the file.
PersistRaises(t) ==
  /\ pc[t] = "x_persist"
  /\ \E created \in BOOLEAN :
       loc' = [loc EXCEPT ![t].wrote = IF created THEN @ + 1 ELSE @,
                             ![t].raised = "persist_error",
                             ![t].final_results =
                               [status |-> "error",
                                error |-> "persist_error",
                                metadata |-> loc[t].metadata]]
  /\ pc' = [pc EXCEPT ![t] = "x_complete"]
  /\ UNCHANGED << now, workflow_state, current_research, req,
                  nreq, util_vars >>

\* The call puts the status back to 'initialized' as it returns.
Mut_Complete_Reset(t) ==
  /\ pc[t] = "x_complete"
  /\ now' \in ClockReadings
  /\ workflow_state' = [workflow_state EXCEPT
                          !.status = "initialized",
                          !.end_time = now',
                          !.results = loc[t].final_results]
  /\ loc' = [loc EXCEPT ![t].ret = loc[t].final_results]
  /\ pc' = [pc EXCEPT ![t] = AfterReturn(t)]
  /\ UNCHANGED << current_research, req, nreq, util_vars >>

\* Lines 81-85: the state becomes completed, end_time is stamped, the
\* results are stored and returned.
Complete(t) ==
  /\ pc[t] = "x_complete"
  /\ now' \in ClockReadings
  /\ workflow_state' = [workflow_state EXCEPT
                          !.status = "completed",
                          !.end_time = now',
                          !.results = loc[t].final_results]
  /\ loc' = [loc EXCEPT ![t].ret = loc[t].final_results]
  /\ pc' = [pc EXCEPT ![t] = AfterReturn(t)]
  /\ UNCHANGED << current_research, req, nreq, util_vars >>

\* One step of execute_research_project on thread t.
Execute(t) ==
  \/ Enter(t)
  \/ BuildTasks(t)
  \/ BuildTasksRaises(t)
  \/ PhaseStart(t)
  \/ PhaseEnd(t)
  \/ PhaseRaises(t)
  \/ KickoffReturns(t)
  \/ BuildMetadata(t)
  \/ BuildMetadataRaises(t)
  \/ Persist(t)
  \/ PersistRaises(t)
  \/ Complete(t)

\* ------------------------------------------------------------- web service
\* Which web thread serves a request is the server's choice and changes
\* nothing: the first request is given to t1.
MayServe(t) == nreq > 0 \/ t = "t1"

\* A thread is done with its request: its locals go away.
Release(t) ==
  /\ req' = [req EXCEPT ![t] = NoReq]
  /\ loc' = [loc EXCEPT ![t] = NoLoc]

\* POST /api/chat (handle_chat, lines 29-57): a blank message is refused, a
\* research request goes on to start_research_from_chat, anything else is
\* answered as conversation.
ChatRequest(t) ==
  /\ pc[t] = "idle"
  /\ nreq < MaxReq
  /\ MayServe(t)
  /\ nreq' = nreq + 1
  /\ \E raw \in RawMessages, p \in RequestParams :
       LET message == Strip(raw)
       IN IF message # <<>> /\ is_research_request(message)
          THEN /\ req' = [req EXCEPT ![t] = MkReq("chat", message, p)]
               /\ pc' = [pc EXCEPT ![t] = "h_check"]
          ELSE UNCHANGED << pc, req >>
  /\ UNCHANGED << now, workflow_state, current_research, loc, util_vars >>

\* POST /api/research (start_research, lines 206-232): an empty query, a
\* running project and invalid inputs are refused, in this order; then
\* start_research_from_chat is called with the same data.
ResearchRequest(t) ==
  /\ pc[t] = "idle"
  /\ nreq < MaxReq
  /\ MayServe(t)
  /\ nreq' = nreq + 1
  /\ \E raw \in RawMessages, p \in RequestParams :
       LET query == Strip(raw)
       IN IF /\ query # <<>>
             /\ current_research.status # "running"
             /\ validate_inputs(query, p.output_format, p.target_audience,
                                p.depth_level).valid
          THEN /\ req' = [req EXCEPT ![t] = MkReq("research", query, p)]
               /\ pc' = [pc EXCEPT ![t] = "h_check"]
          ELSE UNCHANGED << pc, req >>
  /\ UNCHANGED << now, workflow_state, current_research, loc, util_vars >>

\* start_research_from_chat, line 88: the request is turned away while the
\* shared status reads 'running'.
CheckRunning(t) ==
  /\ pc[t] = "h_check"
  /\ IF current_research.status = "running"
     THEN /\ pc' = [pc EXCEPT ![t] = "idle"]
          /\ req' = [req EXCEPT ![t] = NoReq]
     ELSE /\ pc' = [pc EXCEPT ![t] = "h_set_status"]
          /\ UNCHANGED req
  /\ UNCHANGED << now, workflow_state, current_research, loc, nreq, util_vars >>

\* Line 101
SetRunning(t) ==
  /\ pc[t] = "h_set_status"
  /\ current_research' = [current_research EXCEPT !.status = "running"]
  /\ pc' = [pc EXCEPT ![t] = "h_set_results"]
  /\ UNCHANGED << now, workflow_state, req, loc, nreq, util_vars >>

\* Lines 102-138: the results are cleared, the worker thread is started and
\* the request answered; the worker's first statement is the call of
\* execute_research_project.
StartWorker(t) ==
  /\ pc[t] = "h_set_results"
  /\ current_research' = [current_research EXCEPT !.results = NoRecord]
  /\ pc' = [pc EXCEPT ![t] = "x_enter"]
  /\ UNCHANGED << now, workflow_state, req, loc, nreq,
                  util_vars >>

\* run_research, line 114
StoreResults(t) ==
  /\ pc[t] = "w_store_results"
  /\ current_research' = [current_research EXCEPT !.results = loc[t].ret]
  /\ pc' = [pc EXCEPT ![t] = "w_store_status"]
  /\ UNCHANGED << now, workflow_state, req, loc, nreq, util_vars >>

\* The worker ends without a word on the status.
Mut_StoreCompleted_KeepsStatus(t) ==
  /\ pc[t] = "w_store_status"
  /\ pc' = [pc EXCEPT ![t] = "idle"]
  /\ Release(t)
  /\ UNCHANGED << now, workflow_state, current_research, nreq, util_vars >>

\* The worker takes the status of the record it was handed: a failed
\* project is an error.
Mut_StoreCompleted_ErrorOnFailed(t) ==
  /\ pc[t] = "w_store_status"
  /\ current_research' =
       [current_research EXCEPT
          !.status = IF loc[t].ret.status = "failed" THEN "error"
                     ELSE "completed"]
  /\ pc' = [pc EXCEPT ![t] = "idle"]
  /\ Release(t)
  /\ UNCHANGED << now, workflow_state, nreq, util_vars >>

\* run_research, lines 115-122: the worker ends. Its except branch (lines
\* 124-126) is not reached from execute_research_project, whose own handler
\* catches every Exception and returns.
StoreCompleted(t) ==
  /\ pc[t] = "w_store_status"
  /\ current_research' = [current_research EXCEPT !.status = "completed"]
  /\ pc' = [pc EXCEPT ![t] = "idle"]
  /\ Release(t)
  /\ UNCHANGED << now, workflow_state, nreq,
                  util_vars >>

\* GET /api/reset (lines 264-269)
reset_research ==
  /\ current_research' = [status |-> "idle", results |-> NoRecord]
  /\ UNCHANGED << now, workflow_state, pc, req, loc, nreq, util_vars >>

\* GET /api/status (get_research_status, lines 234-262), without the fixed
\* system_info and the list of output files: the status, with a view of the
\* results of a completed success, or the error of the record.
get_research_status ==
  LET results == current_research.results
      error == IF "error" \in DOMAIN results THEN results.error
               ELSE "Unknown error"
  IN IF current_research.status = "completed" /\ results # NoRecord
     THEN IF results.status = "success"
          THEN [status |-> current_research.status,
                results |-> [duration |-> results.metadata.workflow_duration,
                             output_preview |-> results.final_output]]
          ELSE [status |-> current_research.status, error |-> error]
     ELSE IF current_research.status = "error" /\ results # NoRecord
          THEN [status |-> current_research.status, error |-> error]
          ELSE [status |-> current_research.status]

WebStep(t) ==
  \/ ChatRequest(t)
  \/ ResearchRequest(t)
  \/ CheckRunning(t)
  \/ SetRunning(t)
  \/ StartWorker(t)
  \/ StoreResults(t)
  \/ StoreCompleted(t)

Init == InitProgram /\ InitUtils

\* ------------------------------------------------------ command-line front end
\* "research:" (main.py:68)
ResearchPrefix == <<"r","e","s","e","a","r","c","h",":">>

\* str.startswith
StartsWith(s, prefix) ==
  Len(s) >= Len(prefix) /\ SubSeq(s, 1, Len(prefix)) = prefix

\* What the user types at the prompt, or passes on the command line: a text,
\* or a text after "research:".
UserInputs == RawMessages \cup {ResearchPrefix \o m : m \in RawMessages}

\* What the user types at the three prompts of the full mode: Enter alone
\* takes the default (main.py:144-158).
TypedParams ==
  { [output_format |-> "", target_audience |-> "", depth_level |-> ""],
    [output_format |-> "presentation", target_audience |-> "",
     depth_level |-> "shallow"] }

OrDefault(typed, default) == IF typed = "" THEN default ELSE typed

\* python main.py <args> (run_command_line_mode, lines 87-104): the query is
\* the arguments joined, the other three take fixed values, and the
\* orchestrator is called at once. The process ends after the results are
\* shown, so this is the first and only command.
CommandLine ==
  /\ pc[MainThread] = "idle"
  /\ nreq = 0
  /\ nreq' = MaxCmd
  /\ \E research_query \in UserInputs :
       req' = [req EXCEPT ![MainThread] =
                 MkReq("cmdline", research_query,
                       [output_format |-> "comprehensive_report",
                        target_audience |-> "professional",
                        depth_level |-> "detailed"])]
  /\ pc' = [pc EXCEPT ![MainThread] = "x_enter"]
  /\ UNCHANGED << now, workflow_state, current_research, loc, util_vars >>

\* run_interactive_mode, lines 68-74, and run_quick_research: the text after
\* "research:" is stripped and, unless empty, researched with fixed values.
QuickResearch ==
  /\ pc[MainThread] = "idle"
  /\ nreq < MaxCmd
  /\ nreq' = nreq + 1
  /\ \E raw \in UserInputs :
       LET user_input == Strip(raw)
           query == Strip(SubSeq(user_input, Len(ResearchPrefix) + 1,
                                 Len(user_input)))
       IN /\ StartsWith(user_input, ResearchPrefix)
          /\ IF query # <<>>
             THEN /\ req' = [req EXCEPT ![MainThread] =
                              MkReq("quick", query,
                                    [output_format |-> "executive_briefing",
                                     target_audience |-> "professional",
                                     depth_level |-> "detailed"])]
                  /\ pc' = [pc EXCEPT ![MainThread] = "x_enter"]
             ELSE UNCHANGED << pc, req >>
  /\ UNCHANGED << now, workflow_state, current_research, loc, util_vars >>

\* run_interactive_mode, lines 75-78, and run_full_research_mode: any other
\* non-empty input is the query; format, audience and depth are asked for,
\* the four are validated, and the user confirms or cancels.
FullResearch ==
  /\ pc[MainThread] = "idle"
  /\ nreq < MaxCmd
  /\ nreq' = nreq + 1
  /\ \E raw \in UserInputs, typed \in TypedParams, confirm \in BOOLEAN :
       LET user_input == Strip(raw)
           p == [output_format |->
                   OrDefault(typed.output_format, "comprehensive_report"),
                 target_audience |->
                   OrDefault(typed.target_audience, "professional"),
                 depth_level |-> OrDefault(typed.depth_level, "detailed")]
       IN /\ ~StartsWith(user_input, ResearchPrefix)
          /\ user_input # <<>>
          /\ IF /\ validate_inputs(user_input, p.output_format,
                                   p.target_audience, p.depth_level).valid
                /\ confirm
             THEN /\ req' = [req EXCEPT ![MainThread] =
                              MkReq("full", user_input, p)]
                  /\ pc' = [pc EXCEPT ![MainThread] = "x_enter"]
             ELSE UNCHANGED << pc, req >>
  /\ UNCHANGED << now, workflow_state, current_research, loc, util_vars >>

\* display_results: the results are printed; the interactive loop reads the
\* next command, the command-line mode ends the process.
DisplayResults ==
  /\ pc[MainThread] = "cli_display"
  /\ pc' = [pc EXCEPT ![MainThread] =
              IF req[MainThread].entry = "cmdline" THEN "exited" ELSE "idle"]
  /\ Release(MainThread)
  /\ UNCHANGED << now, workflow_state, current_research, nreq, util_vars >>

NextCLI ==
  \/ CommandLine
  \/ QuickResearch
  \/ FullResearch
  \/ Execute(MainThread)
  \/ DisplayResults

\* The command-line front end: one thread, one orchestrator instance, calls
\* one after the other.
SpecCLI == Init /\ [][NextCLI]_vars

\* ------------------------------------------------------------ validator runs
\* The inputs of one call of WorkflowUtils.validate_inputs. The queries are
\* a text without blanks at either end (n letters, or n letters with a blank
\* in second place) between blank paddings of at most MaxPad characters.
ValidatorInputs ==
  LET Pads == UNION {[1..n -> {" ", "\t"}] : n \in 0..MaxPad}
      Cores ==
        {[i \in 1..n |-> "x"] : n \in 0..MaxCore}
          \cup {[i \in 1..n |-> IF i = 2 THEN " " ELSE "x"] : n \in 3..MaxCore}
      Queries == {l \o c \o r : l \in Pads, c \in Cores, r \in Pads}
      Formats ==
        {list_available_formats[i] : i \in 1..Len(list_available_formats)}
          \cup {"", "report", "Presentation"}
      Audiences ==
        {list_target_audiences[i] : i \in 1..Len(list_target_audiences)}
          \cup {"", "students"}
      Depths == {list_depth_levels[i] : i \in 1..Len(list_depth_levels)}
                  \cup {"", "deep"}
  IN Queries \X Formats \X Audiences \X Depths

\* The call is about to be made with some inputs.
InitValidate ==
  /\ InitProgram
  /\ u_args \in ValidatorInputs
  /\ u_result = NoRecord

\* The call of WorkflowUtils.validate_inputs.
Validate ==
  /\ u_result = NoRecord
  /\ u_result' = validate_inputs(u_args[1], u_args[2], u_args[3], u_args[4])
  /\ UNCHANGED << u_args, now, workflow_state, current_research, pc, req,
                  loc, nreq, tool_vars >>

NextUtils == Validate

\* The utility functions called on their own.
SpecUtils == InitValidate /\ [][NextUtils]_vars


Next ==
  \/ \E t \in WebThreads : WebStep(t)
  \/ \E t \in WebThreads : Execute(t)
  \/ reset_research

\* The web service: request threads, worker threads and the clock.
Spec == Init /\ [][Next]_vars


\* ------------------------------------------------------- duration estimate
\* base_times (research_workflow.py:427-432), in seconds; an unknown depth
\* gets nothing from the table.
Mut_BaseTime_NoDefault(depth_level) ==
  CASE depth_level = "overview" -> 300
    [] depth_level = "detailed" -> 600
    [] depth_level = "comprehensive" -> 900
    [] depth_level = "expert" -> 1200
    [] OTHER -> 0

\* base_times.get(depth_level, 600)
BaseTime(depth_level) ==
  CASE depth_level = "overview" -> 300
    [] depth_level = "detailed" -> 600
    [] depth_level = "comprehensive" -> 900
    [] depth_level = "expert" -> 1200
    [] OTHER -> 600

\* format_multipliers.get(output_format, 1.0), in tenths: 0.8 is 8.
MultiplierTenths(output_format) ==
  CASE output_format = "executive_briefing" -> 8
    [] output_format = "presentation" -> 9
    [] output_format = "comprehensive_report" -> 12
    [] output_format = "technical_summary" -> 11
    [] output_format = "policy_brief" -> 10
    [] OTHER -> 10

\* WorkflowUtils.estimate_duration: int(base_time * multiplier) // 60, put
\* into "Approximately {minutes} minutes". The product is a float in the
\* code; for the values of the two tables it is within 2e-13 above the exact
\* product and never below it, so int() gives the exact integer part.
estimate_duration(depth_level, output_format) ==
  LET estimated_seconds ==
        (BaseTime(depth_level) * MultiplierTenths(output_format)) \div 10
      minutes == estimated_seconds \div 60
  IN [text |-> "Approximately {minutes} minutes", minutes |-> minutes]

\* The call of estimate_duration is about to be made with some inputs.
InitEstimate ==
  LET Depths == {list_depth_levels[i] : i \in 1..Len(list_depth_levels)}
                  \cup {"", "deep", "Expert"}
      Formats ==
        {list_available_formats[i] : i \in 1..Len(list_available_formats)}
          \cup {"", "report", "Presentation"}
  IN /\ InitProgram
     /\ u_args \in Depths \X Formats
     /\ u_result = NoRecord

Estimate ==
  /\ u_result = NoRecord
  /\ u_result' = estimate_duration(u_args[1], u_args[2])
  /\ UNCHANGED << u_args, now, workflow_state, current_research, pc, req,
                  loc, nreq, tool_vars >>

NextEstimate == Estimate

SpecEstimate == InitEstimate /\ [][NextEstimate]_vars

\* -------------------------------------------------------- citation manager
\* Texts of citation_manager.py, as sequences of characters.
CitationTexts ==
  [
   \* line 81
   NoUrlProvided |->
     << "N", "o", " ", "U", "R", "L", " ", "p", "r", "o", "v", "i", "d",
        "e", "d" >>,
   \* lines 137, 157, 171
   UnknownAuthor |->
     << "U", "n", "k", "n", "o", "w", "n", " ", "A", "u", "t", "h", "o",
        "r" >>,
   \* line 124
   UnsupportedPrefix |->
     << "U", "n", "s", "u", "p", "p", "o", "r", "t", "e", "d", " ", "c",
        "i", "t", "a", "t", "i", "o", "n", " ", "s", "t", "y", "l", "e",
        ":", " " >>,
   \* line 124
   UnsupportedSuffix |->
     << ".", " ", "S", "u", "p", "p", "o", "r", "t", "e", "d", " ", "s",
        "t", "y", "l", "e", "s", ":", " ", "A", "P", "A", ",", " ", "M",
        "L", "A", ",", " ", "C", "h", "i", "c", "a", "g", "o" >>,
   \* line 145
   RetrievedFrom |->
     << "R", "e", "t", "r", "i", "e", "v", "e", "d", " ", "f", "r", "o",
        "m", " " >>,
   \* line 155
   EtAl |->
     << " ", "e", "t", " ", "a", "l", "." >>,
   \* line 159
   MlaWeb |->
     << ".", "\"", " ", "W", "e", "b", ".", " " >>,
   \* line 173
   ChicagoAccessed |->
     << ".", "\"", " ", "A", "c", "c", "e", "s", "s", "e", "d", " " >>,
   \* line 195
   BibliographyPrefix |->
     << "B", "i", "b", "l", "i", "o", "g", "r", "a", "p", "h", "y", " ",
        "(" >>,
   \* line 195
   BibliographySuffix |->
     << " ", "S", "t", "y", "l", "e", ")", ":", "\n", "\n" >>,
   \* line 193
   NoCitationsForBibliography |->
     << "N", "o", " ", "c", "i", "t", "a", "t", "i", "o", "n", "s", " ",
        "a", "v", "a", "i", "l", "a", "b", "l", "e", " ", "f", "o", "r",
        " ", "b", "i", "b", "l", "i", "o", "g", "r", "a", "p", "h", "y",
        "." >>,
   \* line 117
   StyleAPA |->
     << "A", "P", "A" >>,
   \* line 119
   StyleMLA |->
     << "M", "L", "A" >>,
   \* line 121
   StyleCHICAGO |->
     << "C", "H", "I", "C", "A", "G", "O" >>,
   \* line 92: datetime.now().strftime("%Y-%m-%d"); the ticks of the clock are within one day
   DateAccessed |->
     << "2", "0", "2", "6", "-", "1", "1", "-", "0", "5" >>
  ]

UpperChar(c) ==
  CASE c = "a" -> "A" [] c = "b" -> "B" [] c = "c" -> "C" [] c = "d" -> "D"
    [] c = "e" -> "E" [] c = "f" -> "F" [] c = "g" -> "G" [] c = "h" -> "H"
    [] c = "i" -> "I" [] c = "j" -> "J" [] c = "k" -> "K" [] c = "l" -> "L"
    [] c = "m" -> "M" [] c = "n" -> "N" [] c = "o" -> "O" [] c = "p" -> "P"
    [] c = "q" -> "Q" [] c = "r" -> "R" [] c = "s" -> "S" [] c = "t" -> "T"
    [] c = "u" -> "U" [] c = "v" -> "V" [] c = "w" -> "W" [] c = "x" -> "X"
    [] c = "y" -> "Y" [] c = "z" -> "Z" [] OTHER -> c

\* str.upper()
Upper(s) == [i \in 1..Len(s) |-> UpperChar(s[i])]

\* sep.join(parts)
RECURSIVE Join(_, _)
Join(parts, sep) ==
  IF parts = << >> THEN << >>
  ELSE IF Len(parts) = 1 THEN parts[1]
  ELSE parts[1] \o sep \o Join(Tail(parts), sep)

\* The text of '' (a citation_id that was not given).
NoId == << << >>, -1 >>

\* _generate_citation_id: the first eight hex digits of the md5 of title, url
\* and datetime.now().isoformat() put together. The digest is kept as what
\* it is computed from: the text title + url and the reading of the clock
\* (isoformat has a fixed width, so the two parts cannot run into each
\* other). Equal inputs give equal ids; that different inputs can also
\* collide in 32 bits is left out.
generate_citation_id(title, url, iso) == << title \o url, iso >>

\* list(self._citations.keys())
Keys(store) == [i \in 1..Len(store) |-> store[i].citation_id]

HasId(store, citation_id) ==
  \E i \in 1..Len(store) : store[i].citation_id = citation_id

\* self._citations[citation_id]
Lookup(store, citation_id) ==
  store[CHOOSE i \in 1..Len(store) : store[i].citation_id = citation_id]

\* self._citations[citation_id] = citation: a key the dict holds keeps its
\* place and gets the new value, a new key goes to the end.
Store(store, citation) ==
  IF HasId(store, citation.citation_id)
  THEN [i \in 1..Len(store) |->
          IF store[i].citation_id = citation.citation_id
          THEN citation ELSE store[i]]
  ELSE Append(store, citation)
\* The url is taken for the id before the sentinel is looked at again.
Mut_UrlOrSentinel_Keep(url) == url

\* Lines 80-81: an empty url becomes the sentinel text.
UrlOrSentinel(url) == IF url = << >> THEN CitationTexts.NoUrlProvided ELSE url

\* Lines 83-100: the record of a citation. kwargs carries publication_date
\* and publisher (an absent one is None, kept as the empty text: the code
\* only ever tests these two for truth); source_type and doi take their
\* defaults.
CitationData(title, url, authors, kwargs, iso) ==
  [title |-> title,
   authors |-> authors,
   url |-> UrlOrSentinel(url),
   date_accessed |-> CitationTexts.DateAccessed,
   citation_id |-> generate_citation_id(title, UrlOrSentinel(url), iso),
   source_type |-> "web",
   publication_date |-> kwargs.publication_date,
   publisher |-> kwargs.publisher,
   doi |-> << >>]

\* _add_citation: the store after the call and the answer. The arguments
\* are of the types the signature declares, so CitationData(**...) accepts
\* them.
add_citation(store, title, url, authors, kwargs, iso) ==
  IF title = << >>
  THEN [store |-> store,
        answer |-> [kind |-> "error",
                    message |-> "Error: Title is required for citations"]]
  ELSE LET citation == CitationData(title, url, authors, kwargs, iso)
       IN [store |-> Store(store, citation),
           answer |-> [kind |-> "added",
                       message |-> "Citation added successfully with ID: {citation_id}",
                       citation_id |-> citation.citation_id]]

\* _format_apa, lines 128-137
ApaAuthors(authors) ==
  IF authors = << >> THEN CitationTexts.UnknownAuthor
  ELSE IF Len(authors) = 1 THEN authors[1]
  ELSE IF Len(authors) = 2
       THEN authors[1] \o << " ", "&", " " >> \o authors[2]
  ELSE Join(SubSeq(authors, 1, Len(authors) - 1), << ",", " " >>)
         \o << ",", " ", "&", " " >> \o authors[Len(authors)]

\* MLA names the first author and never marks that there are more.
Mut_MlaAuthors_NoEtAl(authors) ==
  IF authors = << >> THEN CitationTexts.UnknownAuthor ELSE authors[1]

\* _format_mla, lines 151-157
MlaAuthors(authors) ==
  IF authors = << >> THEN CitationTexts.UnknownAuthor
  ELSE authors[1] \o (IF Len(authors) > 1 THEN CitationTexts.EtAl ELSE << >>)

\* _format_chicago, lines 167-171
ChicagoAuthors(authors) ==
  IF authors = << >> THEN CitationTexts.UnknownAuthor ELSE authors[1]

\* The url is shown whenever the record has one, the sentinel included.
Mut_ShowsUrl_Sentinel(citation) == citation.url # << >>

\* `citation.url and citation.url != "No URL provided"`
ShowsUrl(citation) ==
  citation.url # << >> /\ citation.url # CitationTexts.NoUrlProvided

\* _format_apa
format_apa(citation) ==
  LET date_str == IF citation.publication_date # << >>
                  THEN citation.publication_date ELSE citation.date_accessed
  IN ApaAuthors(citation.authors) \o << ".", " ", "(" >> \o date_str
       \o << ")", ".", " " >> \o citation.title \o << ".", " " >>
       \o (IF citation.publisher # << >>
           THEN citation.publisher \o << ".", " " >> ELSE << >>)
       \o (IF ShowsUrl(citation)
           THEN CitationTexts.RetrievedFrom \o citation.url ELSE << >>)

\* _format_mla
format_mla(citation) ==
  MlaAuthors(citation.authors) \o << ".", " ", "\"" >> \o citation.title
    \o CitationTexts.MlaWeb \o citation.date_accessed \o << "." >>
    \o (IF ShowsUrl(citation)
        THEN << " ", "<" >> \o citation.url \o << ">", "." >> ELSE << >>)

\* _format_chicago
format_chicago(citation) ==
  ChicagoAuthors(citation.authors) \o << ".", " ", "\"" >> \o citation.title
    \o CitationTexts.ChicagoAccessed \o citation.date_accessed \o << "." >>
    \o (IF ShowsUrl(citation)
        THEN << " " >> \o citation.url \o << "." >> ELSE << >>)

\* _format_citation: the answer for a citation_id and a style.
format_citation(store, citation_id, style) ==
  IF citation_id = NoId
  THEN [kind |-> "id_required",
        message |-> "Error: Citation ID is required for formatting"]
  ELSE IF ~HasId(store, citation_id)
  THEN [kind |-> "not_found",
        message |-> "Citation with ID {citation_id} not found. Available IDs: {ids}",
        citation_id |-> citation_id,
        ids |-> Keys(store)]
  ELSE LET citation == Lookup(store, citation_id)
       IN IF Upper(style) = CitationTexts.StyleAPA
          THEN [kind |-> "formatted", text |-> format_apa(citation)]
          ELSE IF Upper(style) = CitationTexts.StyleMLA
          THEN [kind |-> "formatted", text |-> format_mla(citation)]
          ELSE IF Upper(style) = CitationTexts.StyleCHICAGO
          THEN [kind |-> "formatted", text |-> format_chicago(citation)]
          ELSE [kind |-> "unsupported",
                text |-> CitationTexts.UnsupportedPrefix \o style
                           \o CitationTexts.UnsupportedSuffix]
\* _list_citations: "- {citation_id}: {title}" for each item of the dict,
\* kept as the pairs the lines are written from.
list_citations(store) ==
  IF store = << >>
  THEN [kind |-> "empty", message |-> "No citations stored."]
  ELSE [kind |-> "list",
        message |-> "Stored Citations:",
        lines |-> [i \in 1..Len(store) |->
                     << store[i].citation_id, store[i].title >>]]

\* Lines 197-199: the entries of the bibliography for the first n items.
RECURSIVE BibliographyEntries(_, _, _)
BibliographyEntries(store, style, n) ==
  IF n = 0 THEN << >>
  ELSE BibliographyEntries(store, style, n - 1)
         \o format_citation(store, store[n].citation_id, style).text
         \o << "\n", "\n" >>

\* The entries come out newest first.
Mut_generate_bibliography_Reversed(store, style) ==
  LET reversed == [i \in 1..Len(store) |-> store[Len(store) + 1 - i]]
  IN IF store = << >>
     THEN [kind |-> "empty", text |-> CitationTexts.NoCitationsForBibliography]
     ELSE [kind |-> "bibliography",
           text |-> CitationTexts.BibliographyPrefix \o Upper(style)
                      \o CitationTexts.BibliographySuffix
                      \o BibliographyEntries(reversed, style, Len(store))]

\* _generate_bibliography
generate_bibliography(store, style) ==
  IF store = << >>
  THEN [kind |-> "empty", text |-> CitationTexts.NoCitationsForBibliography]
  ELSE [kind |-> "bibliography",
        text |-> CitationTexts.BibliographyPrefix \o Upper(style)
                   \o CitationTexts.BibliographySuffix
                   \o BibliographyEntries(store, style, Len(store))]

\* dict.get(key, 0)
GetOrZero(dict, key) == IF key \in DOMAIN dict THEN dict[key] ELSE 0

\* dict[key] = value
Put(dict, key, value) ==
  [k \in DOMAIN dict \cup {key} |-> IF k = key THEN value ELSE dict[k]]

\* Every use sets the counter of the id to one.
Mut_track_usage_NoSum(store, usage, citation_id) ==
  IF citation_id = NoId
  THEN [usage |-> usage,
        answer |-> [kind |-> "id_required",
                    message |-> "Error: Citation ID is required for usage tracking"]]
  ELSE IF ~HasId(store, citation_id)
  THEN [usage |-> usage,
        answer |-> [kind |-> "not_found",
                    message |-> "Citation with ID {citation_id} not found",
                    citation_id |-> citation_id]]
  ELSE [usage |-> Put(usage, citation_id, 1),
        answer |-> [kind |-> "tracked",
                    message |-> "Citation {citation_id} usage tracked. Total uses: {n}",
                    citation_id |-> citation_id,
                    total |-> 1]]

\* _track_usage: the counter after the call and the answer.
track_usage(store, usage, citation_id) ==
  IF citation_id = NoId
  THEN [usage |-> usage,
        answer |-> [kind |-> "id_required",
                    message |-> "Error: Citation ID is required for usage tracking"]]
  ELSE IF ~HasId(store, citation_id)
  THEN [usage |-> usage,
        answer |-> [kind |-> "not_found",
                    message |-> "Citation with ID {citation_id} not found",
                    citation_id |-> citation_id]]
  ELSE LET n == GetOrZero(usage, citation_id) + 1
       IN [usage |-> Put(usage, citation_id, n),
           answer |-> [kind |-> "tracked",
                       message |-> "Citation {citation_id} usage tracked. Total uses: {n}",
                       citation_id |-> citation_id,
                       total |-> n]]
\* The variables of the orchestrator and its front ends.
flow_vars == << workflow_state, current_research, pc, req, loc, nreq >>

\* The author lists of no, one, ... n authors (Ann, Bo, Cy, Dee).
AuthorLists(n) ==
  LET AuthorName(i) ==
        CASE i = 1 -> << "A", "n", "n" >>
          [] i = 2 -> << "B", "o" >>
          [] i = 3 -> << "C", "y" >>
          [] OTHER -> << "D", "e", "e" >>
  IN {[i \in 1..k |-> AuthorName(i)] : k \in 0..n}

CiteTitles == { << >>, << "T" >> }
CiteUrls ==
  { << >>, << "h", "t", "t", "p", ":", "/", "/", "x", ".", "e", "d", "u" >> }
CiteStyles ==
  { << "A", "P", "A" >>, << "m", "l", "a" >>,
    << "C", "h", "i", "c", "a", "g", "o" >>,
    << "H", "a", "r", "v", "a", "r", "d" >> }

\* The ids a caller passes: none, one no citation has, one the store holds.
CiteIds ==
  LET UnknownId == << << "z" >>, 0 >>
  IN {NoId, UnknownId}
       \cup {citations[i].citation_id : i \in 1..Len(citations)}

\* _run with action='add' (lines 61-62): the id is made from the reading of
\* the clock at the call.
AddFrom(titles, urls, author_lists, kwargs_set) ==
  /\ Len(added_ids) < MaxAdds
  /\ now' \in ClockReadings
  /\ \E title \in titles, url \in urls, authors \in author_lists,
        kwargs \in kwargs_set :
       LET r == add_citation(citations, title, url, authors, kwargs, now')
       IN /\ citations' = r.store
          /\ u_args' = << "add", title, url, authors, kwargs >>
          /\ u_result' = r.answer
          /\ added_ids' = IF r.answer.kind = "added"
                          THEN Append(added_ids, r.answer.citation_id)
                          ELSE added_ids
  /\ UNCHANGED << citation_usage, n_used, assessment_history, assess_log,
                  snapshot, flow_vars >>

\* _run with action='format' (lines 63-64)
FormatFrom(ids, styles) ==
  /\ \E citation_id \in ids, style \in styles :
       /\ u_args' = << "format", citation_id, style >>
       /\ u_result' = format_citation(citations, citation_id, style)
  /\ UNCHANGED << now, tool_vars, flow_vars >>

\* _run with action='list' (lines 65-66)
List ==
  /\ u_args' = << "list" >>
  /\ u_result' = list_citations(citations)
  /\ UNCHANGED << now, tool_vars, flow_vars >>

\* _run with action='bibliography' (lines 67-68)
Bibliography ==
  /\ \E style \in CiteStyles :
       /\ u_args' = << "bibliography", style >>
       /\ u_result' = generate_bibliography(citations, style)
  /\ UNCHANGED << now, tool_vars, flow_vars >>

\* _run with action='usage' (lines 69-70)
\* The number of usage calls counted so far, over all ids.
RECURSIVE TotalUses(_)
TotalUses(usage) ==
  IF DOMAIN usage = {} THEN 0
  ELSE LET k == CHOOSE key \in DOMAIN usage : TRUE
       IN usage[k] + TotalUses([key \in DOMAIN usage \ {k} |-> usage[key]])

Usage ==
  /\ \E citation_id \in CiteIds :
       LET r == track_usage(citations, citation_usage, citation_id)
       IN /\ TotalUses(citation_usage) < MaxUses
          /\ citation_usage' = r.usage
          /\ u_args' = << "usage", citation_id >>
          /\ u_result' = r.answer
          /\ n_used' = IF r.answer.kind = "tracked"
                       THEN Put(n_used, citation_id,
                                GetOrZero(n_used, citation_id) + 1)
                       ELSE n_used
  /\ UNCHANGED << now, citations, added_ids, assessment_history, assess_log,
                  snapshot, flow_vars >>

\* The calls an agent makes on the store, in any order: records without
\* optional fields, and for format one supported and one unsupported style.
Add ==
  AddFrom(CiteTitles, CiteUrls, AuthorLists(1),
          {[publication_date |-> << >>, publisher |-> << >>]})
Format ==
  FormatFrom(CiteIds, {<< "m", "l", "a" >>,
                       << "H", "a", "r", "v", "a", "r", "d" >>})

NextCite ==
  \/ Add
  \/ Format
  \/ List
  \/ Bibliography
  \/ Usage

\* The citation tool of one agent, called again and again.
SpecCite == Init /\ [][NextCite]_vars

\* One citation with up to MaxAuthors authors is added and then formatted.
AddOne ==
  /\ added_ids = << >>
  /\ AddFrom(CiteTitles, CiteUrls, AuthorLists(MaxAuthors),
             {[publication_date |-> << >>, publisher |-> << >>],
              [publication_date |-> << "2", "0", "2", "4" >>,
               publisher |-> << "P" >>]})
FormatOne ==
  /\ Len(added_ids) = 1
  /\ FormatFrom({citations[i].citation_id : i \in 1..Len(citations)},
                CiteStyles)

NextFormat ==
  \/ AddOne
  \/ FormatOne

SpecFormat == Init /\ [][NextFormat]_vars

\* -------------------------------------------------------- quality assessor
\* Scores are counted in hundredths of a point (5.0 is 500), so that every
\* adjustment of quality_assessor.py and the fifth of a sum of five scores
\* is a whole number.
\*
\* A content is represented by what the code reads from it:
\*   empty           `not content`
\*   words           len(content.split())
\*   found           the patterns for which re.search(..., re.IGNORECASE) matches
\*   years           the tokens of re.findall(r'\b(20\d{2})\b', content), as numbers
\*   citation_count  the sum of len(re.findall(...)) over citation_patterns

\* lines 139-142
credibility_indicators ==
  {"peer.?reviewed", "published in", "journal", "study shows",
   "research indicates", "according to experts", "data suggests"}

\* lines 149-152
bias_indicators ==
  {"always", "never", "everyone knows", "obviously", "without a doubt",
   "definitely proves"}

\* line 165
data_pattern == "\\d+%|\\d+\\.\\d+|statistics|data|findings"

\* lines 203-206
factual_indicators ==
  {"research shows", "data indicates", "study found", "analysis reveals",
   "evidence suggests"}

\* lines 229-232
structure_indicators ==
  {"introduction", "conclusion", "methodology", "results", "discussion",
   "background", "summary"}

\* lines 264-267
recent_indicators ==
  {"recent", "latest", "current", "updated", "new", "this year", "recently",
   "now"}

\* The number of patterns of a list that match the content.
Matched(content, indicators) == Cardinality(content.found \cap indicators)

\* any(domain in source_url.lower() for domain in domains)
AnyDomain(source_url, domains) ==
  \E d \in domains : Contains(Lower(source_url), d)

\* min(10.0, max(0.0, score))
Clamp(score) ==
  LET lower == IF score > 0 THEN score ELSE 0
  IN IF lower < 1000 THEN lower ELSE 1000

assess_credibility(content, source_url) ==
  LET url_adjust ==
        IF source_url # << >>
        THEN IF AnyDomain(source_url, {<< ".", "e", "d", "u" >>,
                                       << ".", "g", "o", "v" >>,
                                       << ".", "o", "r", "g" >>})
             THEN 200
             ELSE IF AnyDomain(source_url, {<< ".", "c", "o", "m" >>,
                                            << ".", "n", "e", "t" >>})
                  THEN 50 ELSE 0
        ELSE 0
      score == 500 + url_adjust
                 + 30 * Matched(content, credibility_indicators)
                 - 20 * Matched(content, bias_indicators)
  IN Clamp(score)

assess_relevance(content, current_year) ==
  LET data_adjust == IF data_pattern \in content.found THEN 150 ELSE 0
      recent_years == {year \in content.years : year >= current_year - 2}
      year_adjust == IF content.years # {} /\ recent_years # {} THEN 100 ELSE 0
      length_adjust == IF content.words > 500 THEN 100
                       ELSE IF content.words < 100 THEN -100 ELSE 0
  IN Clamp(500 + data_adjust + year_adjust + length_adjust)

assess_accuracy(content) ==
  LET citation_adjust == IF content.citation_count > 5 THEN 200
                         ELSE IF content.citation_count > 2 THEN 100 ELSE 0
  IN Clamp(600 + citation_adjust + 30 * Matched(content, factual_indicators))

\* The score of _assess_completeness before the clamp of line 239.
CompletenessRaw(content) ==
  LET length_adjust == IF content.words > 1000 THEN 200
                       ELSE IF content.words > 500 THEN 100
                       ELSE IF content.words < 100 THEN -200 ELSE 0
      structure_count == Matched(content, structure_indicators)
  IN 500 + length_adjust + structure_count * 50

Mut_assess_completeness_NoClamp(content) == CompletenessRaw(content)

assess_completeness(content) == Clamp(CompletenessRaw(content))

\* As assess_timeliness, with a year of two years ago still counted as new.
Mut_assess_timeliness_TwoYears(content, current_year) ==
  LET most_recent_year ==
        CHOOSE year \in content.years : \A other \in content.years : other <= year
      years_old == current_year - most_recent_year
      year_adjust ==
        IF content.years # {}
        THEN IF years_old <= 2 THEN 300
             ELSE IF years_old <= 3 THEN 100
             ELSE IF years_old <= 5 THEN 0 ELSE -200
        ELSE 0
  IN Clamp(500 + year_adjust + 20 * Matched(content, recent_indicators))

assess_timeliness(content, current_year) ==
  LET most_recent_year ==
        CHOOSE year \in content.years : \A other \in content.years : other <= year
      years_old == current_year - most_recent_year
      year_adjust ==
        IF content.years # {}
        THEN IF years_old <= 1 THEN 300
             ELSE IF years_old <= 3 THEN 100
             ELSE IF years_old <= 5 THEN 0 ELSE -200
        ELSE 0
  IN Clamp(500 + year_adjust + 20 * Matched(content, recent_indicators))

\* The messages of _generate_recommendations, in the order of its tests
\* (lines 304, 307, 310, 313, 316), the message of line 319, and the
\* messages of _suggest_improvements (lines 383, 385, 387, 389, 391).
RecommendationTexts ==
  [dimension |->
     << "Seek more credible sources (academic, government, established organizations)",
        "Focus on more specific and actionable information",
        "Add more citations and references to support claims",
        "Expand content with more comprehensive coverage",
        "Update with more recent information and sources" >>,
   positive |-> "Content meets quality standards",
   improvement |->
     << "Improve source credibility", "Enhance content relevance",
        "Add more supporting evidence", "Expand content comprehensiveness",
        "Update with recent information" >>]

\* As generate_recommendations, with `<= 6.0` for `< 6.0`.
Mut_generate_recommendations_AtMost(credibility, relevance, accuracy, completeness, timeliness) ==
  LET scores == << credibility, relevance, accuracy, completeness, timeliness >>
      Low(i) == scores[i] <= 600
      Index(message) ==
        CHOOSE i \in 1..5 : RecommendationTexts.dimension[i] = message
      Flagged(message) == Low(Index(message))
      recommendations == SelectSeq(RecommendationTexts.dimension, Flagged)
  IN IF recommendations = << >>
     THEN << RecommendationTexts.positive >>
     ELSE recommendations

generate_recommendations(credibility, relevance, accuracy, completeness, timeliness) ==
  LET scores == << credibility, relevance, accuracy, completeness, timeliness >>
      Low(i) == scores[i] < 600
      Index(message) ==
        CHOOSE i \in 1..5 : RecommendationTexts.dimension[i] = message
      Flagged(message) == Low(Index(message))
      recommendations == SelectSeq(RecommendationTexts.dimension, Flagged)
  IN IF recommendations = << >>
     THEN << RecommendationTexts.positive >>
     ELSE recommendations

\* The scores of a QualityMetrics; year_relevance and year_timeliness are the
\* two readings of datetime.now().year (lines 169 and 245).
calculate_quality_metrics(content, source_url, year_relevance, year_timeliness) ==
  LET credibility_score == assess_credibility(content, source_url)
      relevance_score == assess_relevance(content, year_relevance)
      accuracy_score == assess_accuracy(content)
      completeness_score == assess_completeness(content)
      timeliness_score == assess_timeliness(content, year_timeliness)
      overall_score == (credibility_score + relevance_score + accuracy_score
                          + completeness_score + timeliness_score) \div 5
  IN [credibility_score |-> credibility_score,
      relevance_score |-> relevance_score,
      accuracy_score |-> accuracy_score,
      completeness_score |-> completeness_score,
      timeliness_score |-> timeliness_score,
      overall_score |-> overall_score,
      recommendations |->
        generate_recommendations(credibility_score, relevance_score,
                                 accuracy_score, completeness_score,
                                 timeliness_score)]

\* Field(ge=0, le=10) on every score of QualityMetrics.
QualityMetricsValid(metrics) ==
  /\ metrics.credibility_score \in 0..1000
  /\ metrics.relevance_score \in 0..1000
  /\ metrics.accuracy_score \in 0..1000
  /\ metrics.completeness_score \in 0..1000
  /\ metrics.timeliness_score \in 0..1000
  /\ metrics.overall_score \in 0..1000

\* As run_assess, without the test of line 60.
Mut_run_assess_NoEmptyCheck(content, source_url, year_relevance, year_timeliness) ==
  IF FALSE
  THEN [kind |-> "error",
        message |-> "Error: Content is required for assessment"]
  ELSE LET metrics == calculate_quality_metrics(content, source_url,
                                                year_relevance, year_timeliness)
       IN IF QualityMetricsValid(metrics)
          THEN [kind |-> "assessed", metrics |-> metrics]
          ELSE [kind |-> "error",
                message |-> "Error in quality assessor: {validation error}"]

\* _run("assess", content, source_url): a QualityMetrics that fails its
\* validation raises inside the try of line 58 and is answered as an error.
run_assess(content, source_url, year_relevance, year_timeliness) ==
  IF content.empty
  THEN [kind |-> "error",
        message |-> "Error: Content is required for assessment"]
  ELSE LET metrics == calculate_quality_metrics(content, source_url,
                                                year_relevance, year_timeliness)
       IN IF QualityMetricsValid(metrics)
          THEN [kind |-> "assessed", metrics |-> metrics]
          ELSE [kind |-> "error",
                message |-> "Error in quality assessor: {validation error}"]

\* ---- the contents, urls and years the assessor is called with
\* The empty content, a content of whitespace only (not empty, and nothing
\* to find), and contents with words. "data suggests" and "data indicates"
\* cannot match without "data" matching, and "according to experts" is
\* itself a match of the citation pattern "according to".
AssessContents ==
  LET EmptyContent == [empty |-> TRUE, words |-> 0, found |-> {},
                       years |-> {}, citation_count |-> 0]
      BlankContent == [empty |-> FALSE, words |-> 0, found |-> {},
                       years |-> {}, citation_count |-> 0]
      WordCounts == {99, 100, 500, 501, 1000, 1001}
      Found ==
        {found \in
           {c \cup b \cup f \cup s \cup r \cup d :
              c \in {{}, {"journal"}, credibility_indicators},
              b \in {{}, bias_indicators},
              f \in {{}, factual_indicators},
              s \in {{}, {"summary"}, structure_indicators},
              r \in {{}, recent_indicators},
              d \in {{}, {data_pattern}}} :
           ("data suggests" \in found \/ "data indicates" \in found)
              => data_pattern \in found}
      Years == {{}, {2026}, {2024}, {2021}, {2018, 2020}}
      CitationCounts == {0, 2, 3, 5, 6}
  IN {EmptyContent, BlankContent} \cup
     {content \in [empty : {FALSE}, words : WordCounts, found : Found,
                   years : Years, citation_count : CitationCounts] :
        "according to experts" \in content.found => content.citation_count >= 1}

\* The year read at line 169 and the year read at line 245.
AssessYearReadings == {<< 2025, 2025 >>, << 2026, 2026 >>, << 2026, 2027 >>}

\* The assess call is about to be made with some inputs.
InitAssess ==
  LET AssessUrls ==
        {<< >>,
         << "h", "t", "t", "p", ":", "/", "/", "x", ".", "e", "d", "u" >>,
         << "H", "T", "T", "P", ":", "/", "/", "X", ".", "C", "O", "M" >>,
         << "h", "t", "t", "p", ":", "/", "/", "x", ".", "i", "o" >>}
  IN /\ InitProgram
     /\ u_args \in {<< "assess", content, source_url, years[1], years[2] >> :
                      content \in AssessContents, source_url \in AssessUrls,
                      years \in AssessYearReadings}
     /\ u_result = NoRecord

Assess ==
  /\ u_result = NoRecord
  /\ u_result' = run_assess(u_args[2], u_args[3], u_args[4], u_args[5])
  /\ UNCHANGED << u_args, now, workflow_state, current_research, pc, req,
                  loc, nreq, tool_vars >>

NextAssess == Assess

SpecAssess == InitAssess /\ [][NextAssess]_vars

\* ------------------------------------------- quality assessor: its history
\* hashlib.md5(f"{content[:100]}{source_url}")[:8]: the id is kept as the
\* text it is the digest of (two texts with one digest are left out);
\* content.head stands for content[:100].
generate_assessment_id(content, source_url) == << content.head, source_url >>

\* _assess_content after a content that is not empty: the metrics are stored
\* under the id (a key the dict holds keeps its place and gets the new
\* value, a new key goes to the end); nothing is stored when _run answers
\* with an error.
assess_content(history, content, source_url, year_relevance, year_timeliness) ==
  LET answer == run_assess(content, source_url, year_relevance, year_timeliness)
      assessment_id == generate_assessment_id(content, source_url)
      entry == [assessment_id |-> assessment_id, metrics |-> answer.metrics]
      held == \E i \in 1..Len(history) : history[i].assessment_id = assessment_id
  IN IF answer.kind # "assessed"
     THEN [history |-> history, answer |-> answer]
     ELSE [history |->
             IF held
             THEN [i \in 1..Len(history) |->
                     IF history[i].assessment_id = assessment_id
                     THEN entry ELSE history[i]]
             ELSE Append(history, entry),
           answer |-> [kind |-> "assessed", metrics |-> answer.metrics,
                       assessment_id |-> assessment_id]]

\* _get_assessment_history: one line for every entry of the dict, with the
\* id and the overall score (which the text shows to one decimal).
get_assessment_history(history) ==
  IF history = << >>
  THEN [kind |-> "none", message |-> "No assessments performed yet."]
  ELSE [kind |-> "history",
        lines |-> [i \in 1..Len(history) |->
                     << history[i].assessment_id,
                        history[i].metrics.overall_score >>]]

\* _suggest_improvements: list(self._assessment_history.values())[-1] is the
\* value at the last place of the dict.
suggest_improvements(history, target_score) ==
  IF history = << >>
  THEN [kind |-> "none",
        message |-> "No assessments available for improvement suggestions."]
  ELSE LET latest_metrics == history[Len(history)].metrics
           scores == << latest_metrics.credibility_score,
                        latest_metrics.relevance_score,
                        latest_metrics.accuracy_score,
                        latest_metrics.completeness_score,
                        latest_metrics.timeliness_score >>
           Index(message) == CHOOSE i \in 1..5 : RecommendationTexts.improvement[i] = message
           Below(message) == scores[Index(message)] < target_score
           improvements == SelectSeq(RecommendationTexts.improvement, Below)
       IN IF improvements = << >>
          THEN [kind |-> "meets", target_score |-> target_score]
          ELSE [kind |-> "improve", target_score |-> target_score,
                improvements |-> improvements]

\* The contents an agent has assessed: the empty one, a short text, a long
\* text that begins with the same 100 characters as the short one and goes
\* on with dated, structured material, and a text that begins differently.
HistoryContents ==
  {[empty |-> TRUE, head |-> "", words |-> 0, found |-> {}, years |-> {},
    citation_count |-> 0],
   [empty |-> FALSE, head |-> "a", words |-> 100, found |-> {}, years |-> {},
    citation_count |-> 0],
   [empty |-> FALSE, head |-> "a", words |-> 1001,
    found |-> structure_indicators \cup {"journal", "recent"},
    years |-> {2026}, citation_count |-> 6],
   [empty |-> FALSE, head |-> "b", words |-> 501, found |-> {"journal"},
    years |-> {2021}, citation_count |-> 3]}

\* _run with action='assess' (lines 59-62); the year is 2026 at both readings.
AssessFrom(contents) ==
  /\ Len(assess_log) < MaxAssess
  /\ \E content \in contents,
        source_url \in {<< >>, << "h", "t", "t", "p", ":", "/", "/", "x", ".",
                                  "e", "d", "u" >>} :
       LET r == assess_content(assessment_history, content, source_url,
                               2026, 2026)
       IN /\ assessment_history' = r.history
          /\ u_args' = << "assess", content, source_url >>
          /\ u_result' = r.answer
          /\ assess_log' = IF r.answer.kind = "assessed"
                           THEN Append(assess_log,
                                       [assessment_id |-> r.answer.assessment_id,
                                        metrics |-> r.answer.metrics])
                           ELSE assess_log
  /\ UNCHANGED << now, citations, citation_usage, added_ids, n_used, snapshot,
                  flow_vars >>

AssessCall == AssessFrom(HistoryContents)

\* _run with action='history' (lines 63-64)
History ==
  /\ u_args' = << "history" >>
  /\ u_result' = get_assessment_history(assessment_history)
  /\ UNCHANGED << now, tool_vars, flow_vars >>

\* _run with action='improve' (lines 67-68); 8.0 is the default target.
Improve ==
  /\ \E target_score \in {600, 800, 1000} :
       /\ u_args' = << "improve", target_score >>
       /\ u_result' = suggest_improvements(assessment_history, target_score)
  /\ UNCHANGED << now, tool_vars, flow_vars >>

NextHistory ==
  \/ AssessCall
  \/ History
  \/ Improve

\* The calls an agent makes on one assessor, in any order.
SpecHistory == Init /\ [][NextHistory]_vars

\* ------------------------------------------------- get_workflow_status
\* get_workflow_status returns self.workflow_state.copy(): a new dict with
\* the same values. The values of "errors" and "completed_tasks" are the
\* list objects of the orchestrator itself, so what a holder of the returned
\* record reads in them is what the orchestrator's lists hold at that time.
get_workflow_status == [state |-> workflow_state, edits |-> 0]

\* The record as its holder reads it.
StatusView(returned, state) ==
  [returned.state EXCEPT !.errors = state.errors,
                         !.completed_tasks = state.completed_tasks]

\* The 'status' command of the interactive loop (main.py:64-65), or any
\* other caller between two projects: the returned record is kept. One
\* record is followed in a behaviour.
GetStatus ==
  /\ pc[MainThread] = "idle"
  /\ snapshot = NoRecord
  /\ snapshot' = get_workflow_status
  /\ UNCHANGED << now, citations, citation_usage, added_ids, n_used,
                  assessment_history, assess_log, u_args, u_result, flow_vars >>

\* The holder appends a note to the errors list of the record it got: the
\* list is the orchestrator's.
CallerAppends ==
  /\ snapshot # NoRecord
  /\ snapshot.edits = 0
  /\ snapshot' = [snapshot EXCEPT !.edits = 1]
  /\ workflow_state' = [workflow_state EXCEPT !.errors = Append(@, "note of the caller")]
  /\ UNCHANGED << now, citations, citation_usage, added_ids, n_used,
                  assessment_history, assess_log, u_args, u_result,
                  current_research, pc, req, loc, nreq >>

NextStatus ==
  \/ NextCLI
  \/ GetStatus
  \/ CallerAppends

\* The command-line front end with a caller that asks for the status.
SpecStatus == Init /\ [][NextStatus]_vars

\* --------------------------------------------------- the tools' _run
\* The actions _run of a tool knows (citation_manager.py:61-71,
\* quality_assessor.py:59-68).
AvailableActions(tool) ==
  IF tool = "CitationManager"
  THEN << "add", "format", "list", "bibliography", "usage" >>
  ELSE << "assess", "history", "benchmark", "improve" >>

\* The else branch of _run (citation_manager.py:72, quality_assessor.py:70):
\* the action is none of those compared with, the names are compared as
\* they are written.
UnknownAction ==
  /\ \E tool \in {"CitationManager", "QualityAssessor"},
        action \in {"", "remove", "ADD", "add", "assess", "Assess"} :
       /\ ~InList(action, AvailableActions(tool))
       /\ u_args' = << "_run", tool, action >>
       /\ u_result' = [kind |-> "unknown_action",
                       message |-> "Unknown action: {action}. Available actions: {available}",
                       action |-> action,
                       available |-> AvailableActions(tool)]
  /\ UNCHANGED << now, tool_vars, flow_vars >>

\* An agent that uses both tools: one citation, its usage, assessments of
\* the empty content and of one text, and actions the tools do not know.
NextRun ==
  \/ added_ids = << >> /\ Add
  \/ Usage
  \/ AssessFrom({c \in HistoryContents : c.empty \/ c.words = 501})
  \/ UnknownAction

SpecRun == Init /\ [][NextRun]_vars

\* ------------------------------------------------- one request at a time
\* The web service with its requests served one after the other: one thread
\* takes a request and runs its worker, and /api/reset may come at any time.
NextSerial ==
  \/ WebStep("t1")
  \/ Execute("t1")
  \/ reset_research

SpecSerial == Init /\ [][NextSerial]_vars

\* The server goes on with a request it has taken and the worker thread it
\* has started, and the call of the agent runtime returns or raises; no
\* request need ever arrive.
Progress(t) ==
  \/ CheckRunning(t)
  \/ SetRunning(t)
  \/ StartWorker(t)
  \/ Execute(t)
  \/ StoreResults(t)
  \/ StoreCompleted(t)

\* Every step of Progress moves the thread in pc or in loc.
SpecFair ==
  Init /\ [][Next]_vars /\ \A t \in WebThreads : WF_<< pc, loc >>(Progress(t))

\* =================================================================== claims

\* ------------------------------------------------------------------- C1
\* C1: in the web service at most one project executes at any time: two
\* worker threads are never inside execute_research_project together.
C1_AtMostOneProject ==
  Cardinality({t \in WebThreads : pc[t] \in InExecute}) <= 1

C3_ExceptionsFail ==
  \A t \in Threads :
    loc[t].ret # NoRecord =>
      /\ loc[t].ret.status \in {"success", "failed"}
      /\ loc[t].raised # "" =>
           /\ loc[t].ret = [status |-> "failed", error |-> loc[t].raised]
           /\ workflow_state.status = "error"
           /\ workflow_state.errors # << >>
           /\ workflow_state.errors[Len(workflow_state.errors)] = loc[t].raised

\* ------------------------------------------------------------------- C4
\* C4: when the agent runtime raises during a phase, the call returns the
\* failed record, the status is 'error' afterwards, the call has written no
\* summary file and workflow_state.results is what it was.
C4_PhaseFailure ==
  [][ \A t \in Threads :
        (/\ pc[t] = "x_kickoff"
         /\ loc[t].executing # ""
         /\ pc'[t] = AfterReturn(t))
        => /\ loc'[t].ret.status = "failed"
           /\ workflow_state'.status = "error"
           /\ workflow_state'.results = workflow_state.results
           /\ loc'[t].wrote = 0 ]_vars

\* A call has returned after its second phase raised, on an instance that
\* holds the results of an earlier call.
C4_Witness ==
  \E t \in Threads :
    /\ loc[t].ret.status = "failed"
    /\ loc[t].raised = "phase_error"
    /\ loc[t].n_done = 1
    /\ workflow_state.results.status = "success"

C6_DurationOfSameRun ==
  \A t \in Threads :
    loc[t].ret.status \in {"success", "error"} =>
      LET d == loc[t].ret.metadata.workflow_duration
      IN \/ d = Unknown
         \/ /\ d.ticks >= 0
            /\ d.ticks = workflow_state.end_time - workflow_state.start_time

\* ------------------------------------------------------------------- C7
\* C7: within one project the phases start and end in the order research,
\* analysis, content, each starting only after the one before it has ended,
\* and the status is 'running' while a phase is executing.
C7_PhasesInOrder ==
  LET order == << << "start", "research" >>, << "end", "research" >>,
                  << "start", "analysis" >>, << "end", "analysis" >>,
                  << "start", "content" >>, << "end", "content" >> >>
  IN \A t \in Threads :
       /\ Len(loc[t].log) <= Len(order)
       /\ loc[t].log = SubSeq(order, 1, Len(loc[t].log))
       /\ loc[t].executing # "" => workflow_state.status = "running"

\* ------------------------------------------------------------------- C8
\* C8: execute_research_project is only ever running with arguments that
\* validate_inputs accepts.
C8_ValidatedBeforeExecute ==
  \A t \in Threads :
    pc[t] \in InExecute =>
      validate_inputs(req[t].query, req[t].output_format,
                      req[t].target_audience, req[t].depth_level).valid

\* ------------------------------------------------------------- C9 and C10
\* The length of a text once leading and trailing whitespace is dropped.
TrimmedLen(s) ==
  LET solid == {i \in 1..Len(s) : s[i] \notin {" ", "\t", "\n"}}
  IN IF solid = {} THEN 0
     ELSE (CHOOSE i \in solid : \A j \in solid : j <= i)
            - (CHOOSE i \in solid : \A j \in solid : i <= j) + 1

\* The four conditions of the validator, violated or not by the inputs.
ShortQuery == TrimmedLen(u_args[1]) < 10
BadFormat ==
  u_args[2] \notin {"comprehensive_report", "executive_briefing",
                    "presentation", "technical_summary", "policy_brief"}
BadAudience ==
  u_args[3] \notin {"academic", "professional", "executive", "technical",
                    "general"}
BadDepth ==
  u_args[4] \notin {"overview", "detailed", "comprehensive", "expert"}

\* C9: inputs with a query of at least ten characters once trimmed and with
\* format, audience and depth in their enumerations are valid with no errors;
\* for all inputs, valid is true exactly when errors is empty.
C9_ValidInputsAccepted ==
  u_result # NoRecord =>
    /\ (~ShortQuery /\ ~BadFormat /\ ~BadAudience /\ ~BadDepth)
         => (u_result.valid /\ u_result.errors = << >>)
    /\ u_result.valid <=> (u_result.errors = << >>)

\* A padded query of exactly ten characters once trimmed has been accepted.
C9_Witness ==
  /\ u_result # NoRecord
  /\ u_result.valid
  /\ TrimmedLen(u_args[1]) = 10
  /\ Len(u_args[1]) > 10

\* C10: errors has one entry for each violated condition and no other: as
\* many entries as violations, and the entry of a condition is there exactly
\* when the condition is violated.
C10_AllViolationsReported ==
  u_result # NoRecord =>
    LET n(b) == IF b THEN 1 ELSE 0
        has(m) == \E i \in 1..Len(u_result.errors) : u_result.errors[i] = m
    IN /\ Len(u_result.errors)
            = n(ShortQuery) + n(BadFormat) + n(BadAudience) + n(BadDepth)
       /\ has("Research query must be at least 10 characters long")
            <=> ShortQuery
       /\ has("Invalid output format. Available: [...]") <=> BadFormat
       /\ has("Invalid target audience. Available: [...]") <=> BadAudience
       /\ has("Invalid depth level. Available: [...]") <=> BadDepth

\* All four conditions are violated at once and four errors are reported.
C10_Witness ==
  /\ u_result # NoRecord
  /\ ShortQuery /\ BadFormat /\ BadAudience /\ BadDepth
  /\ Len(u_result.errors) = 4

\* ------------------------------------------------------------------ C11
\* The base seconds and the multiplier (in tenths) the claim gives for the
\* inputs of the call.
C11_Base ==
  CASE u_args[1] = "overview" -> 300 [] u_args[1] = "detailed" -> 600
    [] u_args[1] = "comprehensive" -> 900 [] u_args[1] = "expert" -> 1200
    [] OTHER -> 600
C11_Tenths ==
  CASE u_args[2] = "executive_briefing" -> 8 [] u_args[2] = "presentation" -> 9
    [] u_args[2] = "comprehensive_report" -> 12
    [] u_args[2] = "technical_summary" -> 11 [] OTHER -> 10

\* C11: the minutes reported are floor(base * multiplier / 60), that is
\* 600 * minutes <= base * tenths < 600 * (minutes + 1), with the defaults 600
\* and 1.0 for unknown inputs; (expert, executive_briefing) gives 16.
C11_EstimateIsFloor ==
  u_result # NoRecord =>
    /\ 600 * u_result.minutes <= C11_Base * C11_Tenths
    /\ C11_Base * C11_Tenths < 600 * (u_result.minutes + 1)
    /\ u_args = << "expert", "executive_briefing" >> => u_result.minutes = 16
    /\ u_result.text = "Approximately {minutes} minutes"

\* An estimate has been made whose seconds are no whole number of minutes:
\* (overview, presentation) is 270 s, reported as 4 minutes.
C11_Witness ==
  /\ u_result # NoRecord
  /\ u_args = << "overview", "presentation" >>
  /\ u_result.minutes = 4

C13_OneRecordPerAdd ==
  /\ Len(citations) = Len(added_ids)
  /\ \A i, j \in 1..Len(added_ids) : i # j => added_ids[i] # added_ids[j]

\* ------------------------------------------------------------------ C14
\* C14: a record the store holds stays in it under its id with every field
\* as it was, whatever the call; format, list and bibliography change neither
\* the store nor the usage counter.
C14_RecordsImmutable ==
  [][ /\ \A i \in 1..Len(citations) :
           \E j \in 1..Len(citations') : citations'[j] = citations[i]
      /\ u_args'[1] \in {"format", "list", "bibliography"} =>
           /\ citations' = citations
           /\ citation_usage' = citation_usage ]_vars

\* ------------------------------------------------------------------ C15
\* C15: format and usage called with an id the store does not hold answer
\* not-found with the list of all stored ids and change neither the store nor
\* the usage counter; format of a stored id with a style that is not APA,
\* MLA or Chicago in any case of letters answers unsupported-style.
C15_UnknownIdAndStyle ==
  [][ /\ ( /\ u_args'[1] \in {"format", "usage"}
           /\ u_args'[2] # NoId
           /\ \A i \in 1..Len(citations) :
                citations[i].citation_id # u_args'[2] )
         => /\ u_result'.kind = "not_found"
            /\ "ids" \in DOMAIN u_result'
            /\ u_result'.ids = [i \in 1..Len(citations) |->
                                  citations[i].citation_id]
            /\ citations' = citations
            /\ citation_usage' = citation_usage
      /\ ( /\ u_args'[1] = "format"
           /\ \E i \in 1..Len(citations) :
                citations[i].citation_id = u_args'[2]
           /\ Upper(u_args'[3]) \notin { << "A", "P", "A" >>,
                                         << "M", "L", "A" >>,
                                         << "C", "H", "I", "C", "A", "G", "O" >> } )
         => u_result'.kind = "unsupported" ]_vars

\* ------------------------------------------------------------------ C16
\* s begins with prefix.
BeginsWith(s, prefix) ==
  Len(s) >= Len(prefix) /\ SubSeq(s, 1, Len(prefix)) = prefix

\* s ends with suffix.
EndsWith(s, suffix) ==
  Len(s) >= Len(suffix)
    /\ SubSeq(s, Len(s) - Len(suffix) + 1, Len(s)) = suffix

\* The record the last format call was about.
FormattedRecord ==
  citations[CHOOSE i \in 1..Len(citations) :
              citations[i].citation_id = u_args[2]]

\* The author part each style's rule gives for a list of authors.
C16_Authors(style, authors) ==
  LET n == Len(authors)
      unknown == << "U", "n", "k", "n", "o", "w", "n", " ",
                    "A", "u", "t", "h", "o", "r" >>
  IN IF n = 0 THEN unknown
     ELSE IF style = "APA"
     THEN IF n = 1 THEN authors[1]
          ELSE IF n = 2 THEN authors[1] \o << " ", "&", " " >> \o authors[2]
          ELSE Join(SubSeq(authors, 1, n - 1), << ",", " " >>)
                 \o << ",", " " >> \o << "&", " " >> \o authors[n]
     ELSE IF style = "MLA"
     THEN authors[1]
            \o (IF n > 1 THEN << " ", "e", "t", " ", "a", "l", "." >> ELSE << >>)
     ELSE authors[1]

\* C16: the formatted text of a stored record begins with the author part
\* its style's rule gives, closed by the full stop every style puts after it
\* (and the bracket or quote that follows): APA one author as is, 'A & B',
\* 'A, B, & C'; MLA the first author with ' et al.' exactly when there are
\* more; Chicago the first author alone; 'Unknown Author' for no author.
C16_AuthorPart ==
  (u_args[1] = "format" /\ u_result.kind = "formatted") =>
    LET authors == FormattedRecord.authors
        style == Upper(u_args[3])
    IN /\ style = << "A", "P", "A" >> =>
            BeginsWith(u_result.text,
                       C16_Authors("APA", authors) \o << ".", " ", "(" >>)
       /\ style = << "M", "L", "A" >> =>
            BeginsWith(u_result.text,
                       C16_Authors("MLA", authors) \o << ".", " ", "\"" >>)
       /\ style = << "C", "H", "I", "C", "A", "G", "O" >> =>
            BeginsWith(u_result.text,
                       C16_Authors("Chicago", authors) \o << ".", " ", "\"" >>)

\* A record with three authors has been formatted in MLA (given as 'mla').
C16_Witness ==
  /\ u_args[1] = "format"
  /\ u_result.kind = "formatted"
  /\ u_args[3] = << "m", "l", "a" >>
  /\ Len(FormattedRecord.authors) = 3

\* ------------------------------------------------------------------ C17
\* The sentinel text and the url of the adds, written out.
C17_Sentinel ==
  << "N", "o", " ", "U", "R", "L", " ", "p", "r", "o", "v", "i", "d", "e", "d" >>
C17_Retrieved ==
  << "R", "e", "t", "r", "i", "e", "v", "e", "d", " ", "f", "r", "o", "m" >>

\* C17: the formatted text of a citation added without a url holds neither
\* the sentinel text nor 'Retrieved from' nor an angle bracket and ends with
\* the full stop after the date; for a citation added with a url, APA holds
\* 'Retrieved from ' and the url, MLA the url in angle brackets, and in
\* Chicago the url comes last, before the closing full stop.
C17_UrlShownOrSuppressed ==
  (u_args[1] = "format" /\ u_result.kind = "formatted") =>
    LET c == FormattedRecord
        style == Upper(u_args[3])
        text == u_result.text
    IN IF c.url = C17_Sentinel
       THEN /\ ~Contains(text, C17_Sentinel)
            /\ ~Contains(text, C17_Retrieved)
            /\ ~Contains(text, << "<" >>)
            /\ style # << "A", "P", "A" >> =>
                 EndsWith(text, c.date_accessed \o << "." >>)
       ELSE /\ style = << "A", "P", "A" >> =>
                 EndsWith(text, C17_Retrieved \o << " " >> \o c.url)
            /\ style = << "M", "L", "A" >> =>
                 Contains(text, << "<" >> \o c.url \o << ">" >>)
            /\ style = << "C", "H", "I", "C", "A", "G", "O" >> =>
                 EndsWith(text, << " " >> \o c.url \o << "." >>)

\* A citation added without a url has been formatted in MLA.
C17_Witness ==
  /\ u_args[1] = "format"
  /\ u_result.kind = "formatted"
  /\ Upper(u_args[3]) = << "M", "L", "A" >>
  /\ FormattedRecord.url = C17_Sentinel
  /\ added_ids # << >>

\* ------------------------------------------------------------------ C18
\* The ids of the successful adds in the order they were first answered.
RECURSIVE InsertionOrder(_)
InsertionOrder(ids) ==
  IF ids = << >> THEN << >>
  ELSE LET before == InsertionOrder(SubSeq(ids, 1, Len(ids) - 1))
           last == ids[Len(ids)]
       IN IF \E i \in 1..Len(before) : before[i] = last
          THEN before ELSE Append(before, last)

\* format(id, style) of each id of the list, each followed by a blank line.
RECURSIVE C18_Entries(_, _)
C18_Entries(ids, style) ==
  IF ids = << >> THEN << >>
  ELSE format_citation(citations, ids[1], style).text
         \o << "\n", "\n" >> \o C18_Entries(Tail(ids), style)

\* The title stored under an id.
C18_Title(id) ==
  citations[CHOOSE i \in 1..Len(citations) : citations[i].citation_id = id].title

\* C18: with citations in the store, the bibliography of a style is its
\* heading followed by format(id, style) and a blank line for every id in the
\* order the ids were inserted, and list gives the same ids in the same
\* order, each with its title; the ids are those of the store, each once.
C18_InInsertionOrder ==
  LET ids == InsertionOrder(added_ids)
  IN
  /\ (u_args[1] = "bibliography" /\ ids # << >>) =>
       /\ u_result.kind = "bibliography"
       /\ u_result.text =
            << "B", "i", "b", "l", "i", "o", "g", "r", "a", "p", "h", "y",
               " ", "(" >> \o Upper(u_args[2])
              \o << " ", "S", "t", "y", "l", "e", ")", ":", "\n", "\n" >>
              \o C18_Entries(ids, u_args[2])
  /\ (u_args[1] = "list" /\ ids # << >>) =>
       /\ u_result.kind = "list"
       /\ u_result.lines = [i \in 1..Len(ids) |-> << ids[i], C18_Title(ids[i]) >>]
  /\ (u_args[1] \in {"bibliography", "list"}) =>
       /\ {ids[i] : i \in 1..Len(ids)}
            = {citations[i].citation_id : i \in 1..Len(citations)}
       /\ Len(ids) = Len(citations)

\* A bibliography has been made of two citations that format differently.
C18_Witness ==
  /\ u_args[1] = "bibliography"
  /\ u_result.kind = "bibliography"
  /\ Len(citations) = 2
  /\ citations[1].url # citations[2].url
  /\ Upper(u_args[2]) = << "C", "H", "I", "C", "A", "G", "O" >>

\* ------------------------------------------------------------------ C19
\* C19: a usage call on a stored id adds exactly one to the counter of that
\* id and changes no other counter and no record; after every call each key
\* of the counter is the id of a stored citation and its count is at least
\* one and is the number of usage calls answered with success for that id.
C19_UsageCounts ==
  [][ /\ ( /\ u_args'[1] = "usage"
           /\ \E i \in 1..Len(citations) :
                citations[i].citation_id = u_args'[2] )
         => /\ u_result'.kind = "tracked"
            /\ u_args'[2] \in DOMAIN citation_usage'
            /\ citation_usage'[u_args'[2]] =
                 (IF u_args'[2] \in DOMAIN citation_usage
                  THEN citation_usage[u_args'[2]] ELSE 0) + 1
            /\ u_result'.total = citation_usage'[u_args'[2]]
            /\ \A k \in DOMAIN citation_usage' \ {u_args'[2]} :
                 k \in DOMAIN citation_usage
                   /\ citation_usage'[k] = citation_usage[k]
            /\ citations' = citations
      /\ \A k \in DOMAIN citation_usage' :
            /\ \E i \in 1..Len(citations') : citations'[i].citation_id = k
            /\ citation_usage'[k] >= 1
            /\ k \in DOMAIN n_used'
            /\ citation_usage'[k] = n_used'[k]
      /\ DOMAIN n_used' = DOMAIN citation_usage' ]_vars

\* The usage of one of two stored citations has been tracked twice; the
\* other citation has no counter.
C19_Witness ==
  /\ u_args[1] = "usage"
  /\ u_result.kind = "tracked"
  /\ u_result.total = 2
  /\ Len(citations) = 2
  /\ DOMAIN citation_usage = {u_args[2]}

\* ------------------------------------------------------------------ C20
\* The five sub-scores of a metrics record.
C20_SubScores(metrics) ==
  << metrics.credibility_score, metrics.relevance_score,
     metrics.accuracy_score, metrics.completeness_score,
     metrics.timeliness_score >>

\* C20: for every content that is not empty and every source_url, assess
\* answers with metrics whose five sub-scores each lie between 0 and 10, and
\* five times the overall score is exactly the sum of the five sub-scores.
C20_ScoresInRangeAndMean ==
  (u_args[1] = "assess" /\ ~u_args[2].empty /\ u_result # NoRecord) =>
     /\ u_result.kind = "assessed"
     /\ \A i \in 1..5 : C20_SubScores(u_result.metrics)[i] \in 0..1000
     /\ 5 * u_result.metrics.overall_score =
          C20_SubScores(u_result.metrics)[1] + C20_SubScores(u_result.metrics)[2]
            + C20_SubScores(u_result.metrics)[3] + C20_SubScores(u_result.metrics)[4]
            + C20_SubScores(u_result.metrics)[5]

\* A long content with all seven structure words has been assessed: the
\* completeness computed as 10.5 is returned as 10.
C20_Witness ==
  /\ u_args[1] = "assess"
  /\ u_result # NoRecord
  /\ u_result.kind = "assessed"
  /\ u_args[2].words > 1000
  /\ structure_indicators \subseteq u_args[2].found
  /\ u_result.metrics.completeness_score = 1000

\* ------------------------------------------------------------------ C21
\* C21: the recommendations of an assessment are never empty; they are the
\* one positive message exactly when all five sub-scores are at least 6.0,
\* and otherwise hold, for exactly the sub-scores below 6.0, the message of
\* that dimension, once each, in the order credibility, relevance, accuracy,
\* completeness, timeliness, without the positive message.
C21_Recommendations ==
  (u_args[1] = "assess" /\ u_result # NoRecord /\ u_result.kind = "assessed") =>
     LET m == u_result.metrics
         recs == m.recommendations
         scores == C20_SubScores(m)
         At(i) == {k \in 1..Len(recs) : recs[k] = RecommendationTexts.dimension[i]}
         Positive == {k \in 1..Len(recs) : recs[k] = RecommendationTexts.positive}
     IN /\ recs # << >>
        /\ (\A i \in 1..5 : scores[i] >= 600) <=> recs = << RecommendationTexts.positive >>
        /\ Positive # {} => Len(recs) = 1
        /\ \A i \in 1..5 :
             Cardinality(At(i)) = (IF scores[i] < 600 THEN 1 ELSE 0)
        /\ \A i, j \in 1..5 : \A k \in At(i), l \in At(j) : i < j => k < l
        /\ \A k \in 1..Len(recs) : k \in Positive \/ \E i \in 1..5 : k \in At(i)

\* An assessment with an accuracy of exactly 6.0, which is not low, and at
\* least two sub-scores that are.
C21_Witness ==
  /\ u_args[1] = "assess"
  /\ u_result # NoRecord
  /\ u_result.kind = "assessed"
  /\ u_result.metrics.accuracy_score = 600
  /\ Len(u_result.metrics.recommendations) >= 2

\* ------------------------------------------------------------------ C22
\* The dimensions of a metrics record that are below a target, by their
\* messages, in the order credibility, relevance, accuracy, completeness,
\* timeliness.
C22_Below(metrics, target_score) ==
  LET scores == C20_SubScores(metrics)
      Index(message) == CHOOSE i \in 1..5 : RecommendationTexts.improvement[i] = message
      Below(message) == scores[Index(message)] < target_score
  IN SelectSeq(RecommendationTexts.improvement, Below)

\* C22: after assess calls, improve(target_score) reports the dimensions
\* below target_score of the assessment that the most recent successful
\* assess call stored.
C22_ImproveUsesLatest ==
  (u_args[1] = "improve" /\ assess_log # << >>) =>
     LET below == C22_Below(assess_log[Len(assess_log)].metrics, u_args[2])
     IN IF below = << >>
        THEN u_result.kind = "meets"
        ELSE u_result.kind = "improve" /\ u_result.improvements = below

\* ------------------------------------------------------------------ C23
\* C23: every successful assess call adds one entry to the history (after n
\* of them the history holds and history() lists n assessments), and the
\* metrics stored under an assessment id are the same after every step.
C23_OneEntryPerAssess ==
  [][ /\ Len(assessment_history') = Len(assess_log')
      /\ u_args'[1] = "history" =>
           (IF assess_log' = << >> THEN u_result'.kind = "none"
            ELSE u_result'.kind = "history"
                   /\ Len(u_result'.lines) = Len(assess_log'))
      /\ \A i \in 1..Len(assessment_history) :
           \E j \in 1..Len(assessment_history') :
             assessment_history'[j] = assessment_history[i] ]_vars

\* ------------------------------------------------------------------ C24
\* The year adjustment the claim gives for the year tokens of a content.
C24_YearAdjust(years, current_year) ==
  IF years = {} THEN 0
  ELSE LET newest == CHOOSE y \in years : \A z \in years : z <= y
           age == current_year - newest
       IN IF age <= 1 THEN 300
          ELSE IF age <= 3 THEN 100
          ELSE IF age <= 5 THEN 0 ELSE -200

\* The timeliness the claim gives: 5.0, the year adjustment and 0.2 for
\* every recency phrase found, kept within 0 and 10.
C24_Expected(content, current_year) ==
  LET raw == 500 + C24_YearAdjust(content.years, current_year)
                 + 20 * Cardinality(content.found \cap recent_indicators)
  IN IF raw < 0 THEN 0 ELSE IF raw > 1000 THEN 1000 ELSE raw

C25_StatusIsCopy ==
  [][ /\ (snapshot # NoRecord /\ snapshot' = snapshot) =>
           StatusView(snapshot', workflow_state') = StatusView(snapshot, workflow_state)
      /\ (snapshot # NoRecord /\ snapshot' # NoRecord
            /\ snapshot'.edits # snapshot.edits /\ snapshot'.state = snapshot.state) =>
           workflow_state' = workflow_state ]_vars

\* ------------------------------------------------------------------ C26
\* What the two tools keep between calls.
C26_Stored == << citations, citation_usage, assessment_history >>

\* C26: every call of _run is answered with a text response; an action a
\* tool does not know is answered with the 'Unknown action' message that
\* names it, and assess with empty content with the input-error message, and
\* both leave the citations, the usage counter and the assessment history
\* as they were.
C26_ToolsAnswerInText ==
  [][ /\ u_args' # u_args \/ u_result' # u_result =>
           /\ "kind" \in DOMAIN u_result'
           /\ u_result'.kind \in {"error", "added", "id_required", "not_found",
                                  "tracked", "assessed", "unknown_action"}
      /\ (u_args'[1] = "_run" /\ u_args' # u_args) =>
           /\ u_result'.kind = "unknown_action"
           /\ u_result'.action = u_args'[3]
           /\ C26_Stored' = C26_Stored
      /\ (u_args'[1] = "assess" /\ u_args' # u_args /\ u_args'[2].empty) =>
           /\ u_result'.kind = "error"
           /\ u_result'.message = "Error: Content is required for assessment"
           /\ C26_Stored' = C26_Stored ]_vars

\* With a citation, a usage count and an assessment stored, assess has been
\* called with empty content.
C26_Witness ==
  /\ u_args[1] = "assess"
  /\ u_args[2].empty
  /\ u_result.kind = "error"
  /\ citations # << >>
  /\ DOMAIN citation_usage # {}
  /\ assessment_history # << >>

\* ------------------------------------------------------------------ C27
\* C27: whenever the shared record has status 'completed' its results are
\* not None and are a record a project returned.
C27_CompletedHasResults ==
  current_research.status = "completed" =>
    /\ current_research.results # NoRecord
    /\ current_research.results.status \in {"success", "error", "failed"}

\* ------------------------------------------------------------------ C28
\* C28: whenever the shared status is 'running' it later is 'completed',
\* 'error' or 'idle'.
C28_RunningEnds ==
  (current_research.status = "running")
    ~> (current_research.status \in {"completed", "error", "idle"})


\* Both projects of two requests have run to their end and the shared status
\* went from 'running' to 'completed'.
C28_Witness ==
  /\ current_research.status = "completed"
  /\ current_research.results.status = "success"
  /\ nreq >= 2
  /\ \A t \in WebThreads : pc[t] = "idle"

\* ------------------------------------------------------------------ C29
\* C29: the worker sets the shared status to 'completed' when
\* execute_research_project has returned, whatever the status of the record
\* it returned; the shared status is never 'error', as the call never
\* raises; and for a completed record of a failed project the status
\* endpoint answers with status 'completed' and the record's error.
C29_FailedIsCompleted ==
  [][ /\ \A t \in WebThreads :
           (pc[t] = "w_store_status" /\ pc'[t] = "idle") =>
              current_research'.status = "completed"
      /\ current_research'.status # "error"
      /\ (/\ current_research'.status = "completed"
          /\ current_research'.results.status = "failed") =>
            get_research_status' =
              [status |-> "completed",
               error |-> current_research'.results.error] ]_vars

\* A failed project is shown by the status endpoint.
C29_Witness ==
  /\ current_research.status = "completed"
  /\ current_research.results.status = "failed"
  /\ get_research_status.error = "phase_error"
  /\ workflow_state.status = "error"

\* ------------------------------------------------------------------ C30
\* C30: whatever calls of execute_research_project have succeeded or failed
\* on the orchestrator, its current_task is None and its completed_tasks is
\* the empty list.
C30_NoTaskRecorded ==
  /\ workflow_state.current_task = None
  /\ workflow_state.completed_tasks = << >>

\* A call has failed and a later one has run its three phases and completed.
C30_Witness ==
  /\ workflow_state.status = "completed"
  /\ workflow_state.errors # << >>
  /\ workflow_state.results.status = "success"
  /\ C30_NoTaskRecorded

=============================================================================
